---- MODULE Spec2Model ----
(***************************************************************************)
(* Verification model of the expense-tracker bot's LLM pipeline:           *)
(*   - the analytics pipeline (AnalyticsService: generate, validate,       *)
(*     execute, format) and its caller handleCustomReportQuery,            *)
(*   - the structured extractor (TextProcessor.extractStructured) with the *)
(*     zod validators it is given,                                         *)
(*   - the intent orchestrator (Orchestrator.analyzeIntent),               *)
(*   - the transaction flow (handleExpenseMessage and the                  *)
(*     complete_expense_account callback).                                 *)
(*                                                                         *)
(* External collaborators (prompt store, model provider, database) answer  *)
(* nondeterministically: every call may succeed or throw, and the model    *)
(* may answer with any content of the bounded input sets below.            *)
(***************************************************************************)
EXTENDS Integers, Sequences, FiniteSets, TLC

(***************************************************************************)
(* Strings whose characters matter are sequences of one-character strings. *)
(***************************************************************************)
Whitespace == {" ", "\n", "\t"}

LowerToUpper ==
    [c \in {"s", "a", "f", "e", "n", "o", "t", "u", "d", "r", "i", "c", "v", "k"} |->
        CASE c = "s" -> "S" [] c = "a" -> "A" [] c = "f" -> "F" [] c = "e" -> "E"
          [] c = "n" -> "N" [] c = "o" -> "O" [] c = "t" -> "T" [] c = "u" -> "U"
          [] c = "d" -> "D" [] c = "r" -> "R" [] c = "i" -> "I" [] c = "c" -> "C"
          [] c = "v" -> "V" [] c = "k" -> "K"]

\* String.prototype.toUpperCase, character by character.
toUpperCase(s) ==
    [i \in 1..Len(s) |-> IF s[i] \in DOMAIN LowerToUpper THEN LowerToUpper[s[i]] ELSE s[i]]

RECURSIVE trimStart(_)
trimStart(s) ==
    IF s # <<>> /\ Head(s) \in Whitespace THEN trimStart(Tail(s)) ELSE s

RECURSIVE trimEnd(_)
trimEnd(s) ==
    IF s # <<>> /\ s[Len(s)] \in Whitespace THEN trimEnd(SubSeq(s, 1, Len(s) - 1)) ELSE s

\* String.prototype.trim.
trim(s) == trimEnd(trimStart(s))

SAFE == <<"S", "A", "F", "E">>

(***************************************************************************)
(* JSON objects are functions from field names to values; an absent field  *)
(* is a name outside the domain, and JSON null is the value NULL.          *)
(***************************************************************************)
NULL == "<null>"

EmptyObject == [k \in {} |-> NULL]

With(obj, key, value) ==
    [k \in DOMAIN obj \cup {key} |-> IF k = key THEN value ELSE obj[k]]

Opt(obj, key, o) == IF o = <<>> THEN obj ELSE With(obj, key, o[1])

(***************************************************************************)
(* Bounds of the input sets.                                               *)
(***************************************************************************)
MaxLimit == 1           \* largest "limit" / account id a model output carries
MaxInstallments == 2    \* largest "installments" a model output carries
MaxUpdates == 3         \* updates (messages, button taps) handled in one behaviour
MaxPurchases == 2       \* direct calls of recordCreditCardPurchase in one behaviour
MaxTotalInstallments == 3   \* largest totalInstallments of a direct call
MaxClock == 3       \* ticks the clock runs
MaxCalls == 3       \* calls of getPromptWithConfig in one behaviour
MaxClears == 1      \* calls of clearCache / clearPromptCache in one behaviour
MaxTemplate == 2    \* tokens of a prompt template
MaxVariables == 2   \* entries of the variables given to compilePrompt
MaxDeliveries == 4  \* updates of one behaviour when button taps are delivered again

(***************************************************************************)
(* zod validators (schemas/*.schema.ts).  z.object() is zod's default,     *)
(* non-strict object: keys outside the shape are stripped from the output, *)
(* not rejected; .default(v) fills v in for an absent key.                 *)
(***************************************************************************)
QueryTypeEnum ==
    {"rank_accounts_by_expense", "total_spending_by_category",
     "count_archived_transactions", "count_remaining_installments",
     "total_credit_card_debt", "rank_accounts_by_transaction_count"}

TimePeriodEnum == {"today", "this_week", "this_month", "this_year", "all_time"}

QueryGeneratorSchema ==
    [name     |-> "QueryGeneratorSchema",
     shape    |-> {"query_type", "sort_order", "limit", "time_period", "filters",
                   "include_archived", "credit_card_account_id"},
     required |-> {"query_type"},
     defaults |-> [time_period |-> "all_time", include_archived |-> FALSE]]

\* Mutation: query_type is any string (z.string() instead of z.enum).
QueryGeneratorFieldOk_AnyQueryType(k, v) ==
    CASE k = "query_type"             -> TRUE
      [] k = "sort_order"             -> v \in {"asc", "desc"}
      [] k = "limit"                  -> v \in Int /\ v > 0
      [] k = "time_period"            -> v \in TimePeriodEnum
      [] k = "filters"                -> TRUE
      [] k = "include_archived"       -> v \in BOOLEAN
      [] k = "credit_card_account_id" -> v \in Int /\ v > 0

QueryGeneratorFieldOk(k, v) ==
    CASE k = "query_type"             -> v \in QueryTypeEnum
      [] k = "sort_order"             -> v \in {"asc", "desc"}
      [] k = "limit"                  -> v \in Int /\ v > 0
      [] k = "time_period"            -> v \in TimePeriodEnum
      [] k = "filters"                -> TRUE
      [] k = "include_archived"       -> v \in BOOLEAN
      [] k = "credit_card_account_id" -> v \in Int /\ v > 0

TransactionTypeEnum ==
    {"income", "transfer", "expense", "credit_card_payment", "credit_card_purchase"}

CurrencyEnum == {"EUR", "USDC", "ARS", "USD"}

Digits == {"0", "1", "2", "3", "4", "5", "6", "7", "8", "9"}

DigitValue(c) ==
    CASE c = "0" -> 0 [] c = "1" -> 1 [] c = "2" -> 2 [] c = "3" -> 3 [] c = "4" -> 4
      [] c = "5" -> 5 [] c = "6" -> 6 [] c = "7" -> 7 [] c = "8" -> 8 [] c = "9" -> 9

\* /^\d{4}-\d{2}-\d{2}$/ on a string given as its characters.
DateRegex(s) ==
    /\ Len(s) = 10
    /\ \A i \in {1, 2, 3, 4, 6, 7, 9, 10} : s[i] \in Digits
    /\ s[5] = "-"
    /\ s[8] = "-"

ExpenseParserSchema ==
    [name     |-> "ExpenseParserSchema",
     shape    |-> {"type", "description", "amount", "fromAccount", "toAccount",
                   "category", "currency", "date", "installments", "fromAmount",
                   "toAmount", "confidence"},
     required |-> {"type", "description", "amount", "currency", "date", "confidence"},
     defaults |-> [installments |-> 1]]

ExpenseParserFieldOk(k, v) ==
    CASE k = "type"         -> v \in TransactionTypeEnum
      [] k = "description"  -> v # NULL
      [] k = "amount"       -> v \in Int /\ v > 0
      [] k = "fromAccount"  -> TRUE
      [] k = "toAccount"    -> TRUE
      [] k = "category"     -> TRUE
      [] k = "currency"     -> v \in CurrencyEnum
      [] k = "date"         -> DateRegex(v)
      [] k = "installments" -> v \in Int /\ v > 0
      [] k = "fromAmount"   -> v \in Int /\ v > 0
      [] k = "toAmount"     -> v \in Int /\ v > 0
      [] k = "confidence"   -> v \in Int /\ v >= 0 /\ v <= 100

IntentEnum ==
    {"track_expense", "track_income", "query_balance", "query_transactions",
     "query_report", "archive_transaction", "general_chat", "unknown"}

OrchestratorDecisionSchema ==
    [name     |-> "OrchestratorDecisionSchema",
     shape    |-> {"intent", "confidence", "reasoning"},
     required |-> {"intent", "confidence"},
     defaults |-> EmptyObject]

\* confidence is a number in [0,1]; the model carries it in hundredths.
OrchestratorDecisionFieldOk(k, v) ==
    CASE k = "intent"     -> v \in IntentEnum
      [] k = "confidence" -> v \in Int /\ v >= 0 /\ v <= 100
      [] k = "reasoning"  -> v # NULL

\* Mutation: the validators accept any value for any field.
FieldOk_Unchecked(schema, k, v) == TRUE

FieldOk(schema, k, v) ==
    CASE schema.name = "QueryGeneratorSchema"       -> QueryGeneratorFieldOk(k, v)
      [] schema.name = "ExpenseParserSchema"        -> ExpenseParserFieldOk(k, v)
      [] schema.name = "OrchestratorDecisionSchema" -> OrchestratorDecisionFieldOk(k, v)

\* Mutation: the schema's .default(...) values are not filled in.
ZodOutputKeys_NoDefaults(schema, obj) == DOMAIN obj \cap schema.shape

\* The keys of the output of a successful parse: shape keys that are present, plus
\* the defaulted keys.  Keys outside the shape are dropped.
ZodOutputKeys(schema, obj) == (DOMAIN obj \cap schema.shape) \cup DOMAIN schema.defaults

\* zodSchema.parse(parsed): the validated object, or a ZodError.
ZodParse(schema, obj) ==
    LET missing == schema.required \ DOMAIN obj
        bad     == {k \in DOMAIN obj \cap schema.shape : ~FieldOk(schema, k, obj[k])}
    IN  IF missing # {} \/ bad # {}
        THEN [ok |-> FALSE, error |-> "ZodError"]
        ELSE [ok |-> TRUE,
              value |-> [k \in ZodOutputKeys(schema, obj) |->
                            IF k \in DOMAIN obj THEN obj[k] ELSE schema.defaults[k]]]

(***************************************************************************)
(* Model responses are sequences of tokens: an opening json code fence, a  *)
(* bare code fence, a newline, prose, or the text of one JSON value.       *)
(***************************************************************************)
FenceJson == [t |-> "fence_json", kind |-> "", v |-> EmptyObject]
Fence     == [t |-> "fence", kind |-> "", v |-> EmptyObject]
Newline   == [t |-> "\n", kind |-> "", v |-> EmptyObject]
Prose     == [t |-> "text", kind |-> "", v |-> EmptyObject]
JsonObject(obj) == [t |-> "json", kind |-> "object", v |-> obj]
JsonScalar == [t |-> "json", kind |-> "scalar", v |-> EmptyObject]

IsSpace(tok) == tok.t = "\n"

RECURSIVE DropSpaces(_)
DropSpaces(text) ==
    IF text # <<>> /\ IsSpace(Head(text)) THEN DropSpaces(Tail(text)) ELSE text

RECURSIVE DropSpacesEnd(_)
DropSpacesEnd(text) ==
    IF text # <<>> /\ IsSpace(text[Len(text)])
    THEN DropSpacesEnd(SubSeq(text, 1, Len(text) - 1))
    ELSE text

\* text.replace(/(fence)json\s*\n?/g, ''): every opening json fence goes, with the
\* whitespace after it.
RECURSIVE RemoveJsonFences(_)
RemoveJsonFences(text) ==
    IF text = <<>> THEN <<>>
    ELSE IF Head(text).t = "fence_json" THEN RemoveJsonFences(DropSpaces(Tail(text)))
    ELSE <<Head(text)>> \o RemoveJsonFences(Tail(text))

\* text.replace(/(fence)\s*$/g, ''): a fence that ends the text goes.
RemoveClosingFence(text) ==
    LET body == DropSpacesEnd(text)
    IN  IF body # <<>> /\ body[Len(body)].t = "fence"
        THEN SubSeq(body, 1, Len(body) - 1)
        ELSE text

stripMarkdownCodeFences(text) ==
    DropSpacesEnd(DropSpaces(RemoveClosingFence(RemoveJsonFences(text))))

\* JSON.parse: one JSON value, surrounding whitespace allowed; anything else is a
\* SyntaxError.
JSONParse(text) ==
    LET body == DropSpacesEnd(DropSpaces(text))
    IN  IF Len(body) = 1 /\ body[1].t = "json"
        THEN [ok |-> TRUE, kind |-> body[1].kind, value |-> body[1].v]
        ELSE [ok |-> FALSE, kind |-> "", value |-> EmptyObject]

(***************************************************************************)
(* Model Gateway.  A completion either throws or returns a content.        *)
(***************************************************************************)
ChatFailed == [ok |-> FALSE, content |-> <<>>]
ChatReturned(content) == [ok |-> TRUE, content |-> content]

\* OpenRouterClient.chat with responseFormat json_schema: fences are stripped
\* from the content before it is returned.
chatJson(completion) ==
    IF completion.ok THEN ChatReturned(stripMarkdownCodeFences(completion.content))
    ELSE ChatFailed

\* TextProcessor.extractStructured: chat, strip, JSON.parse, zodSchema.parse.
extractStructured(completion, zodSchema) ==
    LET response == chatJson(completion)
        parsed   == JSONParse(stripMarkdownCodeFences(response.content))
    IN  IF ~response.ok THEN [ok |-> FALSE, error |-> "AI request failed"]
        ELSE IF ~parsed.ok THEN [ok |-> FALSE, error |-> "SyntaxError"]
        ELSE IF parsed.kind # "object" THEN [ok |-> FALSE, error |-> "ZodError"]
        ELSE ZodParse(zodSchema, parsed.value)

(***************************************************************************)
(* Bounded input sets: what the model provider may answer.                 *)
(***************************************************************************)
\* JSON objects a query-generator completion may carry: every allow-listed
\* query_type and one outside the enumeration, enum values in and out of range,
\* numbers in and out of range, a key outside the schema, a missing required key.
QueryObjects ==
    { Opt(Opt(Opt(Opt(Opt(EmptyObject, "query_type", qt), "time_period", tp),
                  "include_archived", ia), "limit", lim), "comment", ex) :
        qt \in {<<>>} \cup {<<q>> : q \in QueryTypeEnum \cup {"delete_all_transactions"}},
        tp \in {<<>>, <<"today">>, <<"yesterday">>},
        ia \in {<<>>, <<TRUE>>},
        lim \in {<<>>} \cup {<<n>> : n \in 0..MaxLimit},
        ex \in {<<>>, <<"drop table">>} }

GoodDate == <<"2", "0", "2", "5", "-", "1", "1", "-", "2", "9">>
BadDate  == <<"2", "9", "/", "1", "1", "/", "2", "0", "2", "5">>

\* JSON objects an expense-parser completion may carry.
ExpenseObjects ==
    { Opt(Opt(Opt(Opt(
        [type |-> ty, description |-> "coffee", amount |-> am, currency |-> cu,
         date |-> da, confidence |-> co],
        "installments", ins), "fromAccount", fa), "category", ca), "note", ex) :
        ty \in {"expense", "credit_card_purchase", "refund"},
        am \in {0, 5},
        cu \in {"USD", "GBP"},
        da \in {GoodDate, BadDate},
        co \in {49, 101},
        ins \in {<<>>} \cup {<<n>> : n \in 0..MaxInstallments},
        fa \in {<<>>, <<NULL>>, <<"Main Checking">>},
        ca \in {<<>>, <<"Food">>},
        ex \in {<<>>, <<"x">>} }

\* The ways a completion may present one JSON object.
Wrappings(obj) ==
    { <<JsonObject(obj)>>,
      <<FenceJson, Newline, JsonObject(obj), Newline, Fence>>,
      <<Fence, Newline, JsonObject(obj), Newline, Fence>>,
      <<Prose, Newline, JsonObject(obj)>> }

NotJson == {<<Prose>>, <<>>, <<JsonScalar>>}

Completions(objects) ==
    {ChatFailed}
      \cup {ChatReturned(c) : c \in NotJson}
      \cup {ChatReturned(c) : c \in UNION {Wrappings(obj) : obj \in objects}}

(***************************************************************************)
(* State.                                                                  *)
(***************************************************************************)
VARIABLES
    call,       \* a direct call of one function under test: its name and arguments
    ret,        \* what that call returned, NoReturn before it is made
    apc,        \* where the analytics request stands (handleCustomReportQuery)
    genCompletion,  \* what the model answered to the query generator
    generatedQuery,  \* generateQuery's result, NoQuery before
    verdict,    \* the validator model's answer and validateQuery's result
    results,    \* executeQuery's result
    response,   \* formatResponse's result
    error,      \* the message of the error thrown to the handler, "" if none
    trace,      \* the external calls made for this request, in order
    reply,      \* what the user was sent
    ipc,        \* where analyzeIntent stands
    intentFailure,  \* the step of analyzeIntent that failed, "none" if none did
    intentResponse, \* the content the model returned to analyzeIntent
    intentParsed,   \* JSON.parse's result in analyzeIntent
    decision,   \* what analyzeIntent returned
    accounts,   \* the accounts table
    categories, \* the categories table
    transactions,   \* the rows of the transactions table, in insertion order
    purchases,  \* the rows of the credit_card_purchases table, in insertion order
    uuids,      \* how many purchase group ids have been generated
    pending,    \* ctx.session.pendingTransaction, NoPending when unset
    keyboards,  \* the account keyboards sent: what each presented, whether it still shows
    updates,    \* how many updates have been handled
    last,       \* what handling the last update did
    promptCache,    \* PromptManager.promptCache: name -> {prompt, config, timestamp}
    now,        \* Date.now(), in milliseconds
    enabled,    \* LangfuseClient.enabled
    pcall,      \* the call of getPromptWithConfig that awaits the store, if any
    plog,       \* the finished calls of the PromptManager, in order
    env,        \* process.env: USER_ID and YOU_SHALL_NOT_PASS
    authorizedUserId,   \* TelegramBot.authorizedUserId
    tpc,        \* where the handler of a text message stands
    replies     \* the replies sent to that message, in order

harnessVars == <<call, ret>>
analyticsVars ==
    <<apc, genCompletion, generatedQuery, verdict, results, response, error, trace, reply>>
intentVars == <<ipc, intentFailure, intentResponse, intentParsed, decision>>
expenseVars ==
    <<accounts, categories, transactions, purchases, uuids, pending, keyboards, updates, last>>
vars ==
    <<call, ret, apc, genCompletion, generatedQuery, verdict, results, response, error,
      trace, reply, ipc, intentFailure, intentResponse, intentParsed, decision,
      accounts, categories, transactions, purchases, uuids, pending, keyboards, updates,
      last, promptCache, now, enabled, pcall, plog, env, authorizedUserId, tpc, replies>>
promptVars == <<promptCache, now, enabled, pcall, plog>>
botVars == <<env, authorizedUserId>>
textVars == <<tpc, replies>>
otherThanHarness == <<analyticsVars, intentVars, expenseVars, promptVars, botVars, textVars>>
otherThanAnalytics == <<harnessVars, intentVars, expenseVars, promptVars, botVars, textVars>>
otherThanIntent == <<harnessVars, analyticsVars, expenseVars, promptVars, botVars, textVars>>
otherThanExpense == <<harnessVars, analyticsVars, intentVars, promptVars, botVars, textVars>>
otherThanPrompt == <<harnessVars, analyticsVars, intentVars, expenseVars, botVars, textVars>>

NoCall == [fn |-> "none"]
NoReturn == [returned |-> FALSE]
NoCompletion == [ok |-> FALSE, content |-> <<>>, asked |-> FALSE]
NoQuery == EmptyObject
NoVerdict ==
    [called |-> FALSE, query |-> NoQuery, returned |-> FALSE, asked |-> FALSE,
     answer |-> <<>>, isSafe |-> FALSE]
NoReply == [sent |-> FALSE, kind |-> "", text |-> ""]

AnalyticsIdle ==
    /\ apc = "idle"
    /\ genCompletion = NoCompletion
    /\ generatedQuery = NoQuery
    /\ verdict = NoVerdict
    /\ results = "none"
    /\ response = ""
    /\ error = ""
    /\ trace = <<>>
    /\ reply = NoReply

HarnessIdle ==
    /\ call = NoCall
    /\ ret = NoReturn

NoDecision == EmptyObject
NoParse == [ok |-> FALSE, kind |-> "", value |-> EmptyObject]

\* No text message is being handled.
TextIdle ==
    /\ tpc = "idle"
    /\ replies = <<>>

IntentIdle ==
    /\ ipc = "idle"
    /\ intentFailure = "none"
    /\ intentResponse = <<>>
    /\ intentParsed = NoParse
    /\ decision = NoDecision

NoPending == EmptyObject
NoUpdate == [kind |-> "none"]

\* No update handled yet, on an empty ledger.
ExpenseIdle ==
    /\ accounts = {}
    /\ categories = {}
    /\ transactions = <<>>
    /\ purchases = <<>>
    /\ uuids = 0
    /\ pending = NoPending
    /\ keyboards = <<>>
    /\ updates = 0
    /\ last = NoUpdate

(***************************************************************************)
(* PromptManager (prompt-manager.ts) over the Langfuse client.  The clock  *)
(* counts milliseconds and advances by half a cacheTTL at a time.  A call of getPromptWithConfig that goes to the store   *)
(* is two steps, the store's answer being awaited in between; calls are    *)
(* made one after the other, as bot.start() hands over one update at a     *)
(* time.                                                                   *)
(***************************************************************************)
cacheTTL == 5 * 60 * 1000

TickLength == cacheTTL \div 2

PromptNames == {"query-generator", "query-validator"}

\* version: 0 stands for "not given".
Versions == {0, 2}

\* The version the store serves when none is given.
CurrentVersion == 1

NoConfig == NULL
StoreConfig == "config of the store"
CallerConfig == "config of the caller"
FallbackConfigs == {NoConfig, CallerConfig}

Text(name, version) == [name |-> name, version |-> version]
NoText == Text("", 0)

NullAnswer == [found |-> FALSE, prompt |-> NoText, config |-> NoConfig]

\* client.getPrompt(name, version): the given version, or the current one, with
\* or without config; or an entry without text.
ClientAnswers(name, version) ==
    { [found |-> TRUE, prompt |-> NoText, config |-> NoConfig] }
      \cup { [found |-> TRUE,
              prompt |-> Text(name, IF version = 0 THEN CurrentVersion ELSE version),
              config |-> c] : c \in {NoConfig, StoreConfig} }

\* LangfuseClient.getPrompt: null when disabled, when the client has nothing and
\* when the client throws.
langfuseGetPrompt(isEnabled, name, version) ==
    IF ~isEnabled THEN {NullAnswer}
    ELSE {NullAnswer} \cup ClientAnswers(name, version)

NoEntry == [prompt |-> NoText, config |-> NoConfig, timestamp |-> 0 - 1]

\* this.promptCache.get(name)
CacheGet(cache, name) == IF name \in DOMAIN cache THEN cache[name] ELSE NoEntry

\* Mutation: the entry is updated field by field, the config of an entry that
\* is already there being kept.
CacheSet_Merging(cache, name, entry) ==
    [n \in DOMAIN cache \cup {name} |->
        IF n # name THEN cache[n]
        ELSE IF name \in DOMAIN cache THEN [entry EXCEPT !.config = cache[name].config]
        ELSE entry]

\* this.promptCache.set(name, entry)
CacheSet(cache, name, entry) ==
    [n \in DOMAIN cache \cup {name} |-> IF n = name THEN entry ELSE cache[n]]

\* Mutation: an entry exactly cacheTTL old is still served.
Fresh_Inclusive(entry, time) == entry # NoEntry /\ time - entry.timestamp <= cacheTTL

\* cached && Date.now() - cached.timestamp < this.cacheTTL
Fresh(entry, time) == entry # NoEntry /\ time - entry.timestamp < cacheTTL

\* Mutation: a fetched prompt is returned but not cached.
afterFetch_NotCached(cache, name, fallbackConfig, answer, time) ==
    [threw |-> ~(answer.found /\ answer.prompt # NoText),
     prompt |-> answer.prompt,
     config |-> IF answer.config # NoConfig THEN answer.config ELSE fallbackConfig,
     cache |-> cache]

\* Mutation: a fetch without prompt text stores an entry all the same.
afterFetch_CachesFailure(cache, name, fallbackConfig, answer, time) ==
    [threw |-> ~(answer.found /\ answer.prompt # NoText),
     prompt |-> answer.prompt,
     config |-> IF answer.config # NoConfig THEN answer.config ELSE fallbackConfig,
     cache |-> CacheSet(cache, name,
                        [prompt |-> answer.prompt, config |-> answer.config,
                         timestamp |-> time])]

\* getPromptWithConfig after the store answered: cache and return the prompt
\* with the store's config or else the caller's, or throw.
afterFetch(cache, name, fallbackConfig, answer, time) ==
    IF answer.found /\ answer.prompt # NoText
    THEN LET finalConfig == IF answer.config # NoConfig THEN answer.config
                            ELSE fallbackConfig
         IN  [threw |-> FALSE, prompt |-> answer.prompt, config |-> finalConfig,
              cache |-> CacheSet(cache, name,
                                 [prompt |-> answer.prompt, config |-> finalConfig,
                                  timestamp |-> time])]
    ELSE [threw |-> TRUE, prompt |-> NoText, config |-> NoConfig, cache |-> cache]

EmptyCache == [n \in {} |-> NoEntry]

IdleCall ==
    [pc |-> "idle", name |-> "", fallbackConfig |-> NoConfig, version |-> 0,
     startedAt |-> 0, before |-> EmptyCache]

PromptIdle ==
    /\ promptCache = EmptyCache
    /\ now = 0
    /\ enabled = FALSE
    /\ pcall = IdleCall
    /\ plog = <<>>

(***************************************************************************)
(* TelegramBot: process.env, the authorized user id the constructor        *)
(* derives from USER_ID, and the authorization middleware.                 *)
(***************************************************************************)
\* A variable of process.env: not set, or set to a text (which may be empty).
Unset == [set |-> FALSE, text |-> <<>>]
EnvText(text) == [set |-> TRUE, text |-> text]

IsDigit(c) == c \in Digits

\* The digits a text starts with.
RECURSIVE LeadingDigits(_)
LeadingDigits(text) ==
    IF text = <<>> \/ ~IsDigit(Head(text)) THEN <<>>
    ELSE <<Head(text)>> \o LeadingDigits(Tail(text))

RECURSIVE NumberOf(_)
NumberOf(digits) ==
    IF digits = <<>> THEN 0
    ELSE 10 * NumberOf(SubSeq(digits, 1, Len(digits) - 1)) + DigitValue(digits[Len(digits)])

Null == [kind |-> "null", n |-> 0]
NaN == [kind |-> "NaN", n |-> 0]
Number(n) == [kind |-> "number", n |-> n]

\* parseInt: the number the text starts with (after whitespace), NaN if it starts
\* with none.
parseInt(text) ==
    IF LeadingDigits(trimStart(text)) = <<>> THEN NaN
    ELSE Number(NumberOf(LeadingDigits(trimStart(text))))

\* userId ? parseInt(userId) : null
AuthorizedUserIdOf(userId) ==
    IF userId.set /\ userId.text # <<>> THEN parseInt(userId.text) ELSE Null

\* JavaScript truthiness of null, NaN or a number.
Truthy(v) == v.kind = "number" /\ v.n # 0

\* ctx.from: absent on updates that have no sender (channel posts).
NoSender == [present |-> FALSE, id |-> 0]
Sender(id) == [present |-> TRUE, id |-> id]

\* Mutation: an update without sender is let through.
Unauthorized_SenderOptional(authorized, from) ==
    Truthy(authorized) /\ from.present /\ from.id # authorized.n

\* this.authorizedUserId && ctx.from?.id !== this.authorizedUserId
Unauthorized(authorized, from) ==
    Truthy(authorized) /\ ~(from.present /\ from.id = authorized.n)

BotIdle ==
    /\ env = [USER_ID |-> Unset, YOU_SHALL_NOT_PASS |-> Unset]
    /\ authorizedUserId = Null

(***************************************************************************)
(* extractStructured applied to every bounded completion, under each of    *)
(* the two validators it is called with (analytics.service.ts:81,          *)
(* expense.handler:313).                                                   *)
(***************************************************************************)
ExtractCalls ==
    {[fn |-> "extractStructured", zodSchema |-> QueryGeneratorSchema, completion |-> c] :
        c \in Completions(QueryObjects)}
      \cup
    {[fn |-> "extractStructured", zodSchema |-> ExpenseParserSchema, completion |-> c] :
        c \in Completions(ExpenseObjects)}

InitExtract ==
    /\ call \in ExtractCalls
    /\ ret = NoReturn
    /\ AnalyticsIdle
    /\ IntentIdle
    /\ TextIdle
    /\ BotIdle
    /\ PromptIdle
    /\ ExpenseIdle

CallExtractStructured ==
    /\ call.fn = "extractStructured"
    /\ ret = NoReturn
    /\ ret' = [returned |-> TRUE,
               result |-> extractStructured(call.completion, call.zodSchema)]
    /\ UNCHANGED <<call, otherThanHarness>>

NextExtract == CallExtractStructured

SpecExtract == InitExtract /\ [][NextExtract]_vars

(***************************************************************************)
(* Prompt Resolver, as its callers see it: a resolution yields the prompt  *)
(* (from the cache or from the store) or throws.                           *)
(***************************************************************************)
PromptOutcomes == {[ok |-> TRUE], [ok |-> FALSE]}

PromptCall(name) == [kind |-> "prompt", name |-> name]
ChatCall(name) == [kind |-> "chat", name |-> name]
RepoCall(name) == [kind |-> "repo", name |-> name]

(***************************************************************************)
(* AnalyticsService.                                                        *)
(***************************************************************************)
GenerateFailedMessage == "Failed to generate a valid structured query from your request."
UnsafeMessage == "Query was deemed unsafe to run."
PromptNotFoundMessage == "Prompt not found or invalid in Langfuse. Please configure it correctly."
AIRequestFailedMessage == "AI request failed"
DatabaseErrorMessage == "database error"
UnsupportedMessage == "The query type is not supported."

Returned(value, calls) == [threw |-> FALSE, value |-> value, error |-> "", calls |-> calls]
Threw(message, calls) == [threw |-> TRUE, value |-> FALSE, error |-> message, calls |-> calls]

\* Mutation: a chat call that failed is issued a second time.
generateQuery_RetryingChat(promptOutcome, modelCompletion) ==
    LET extracted == extractStructured(modelCompletion, QueryGeneratorSchema)
    IN  IF ~promptOutcome.ok
        THEN [threw |-> TRUE, value |-> NoQuery, error |-> GenerateFailedMessage,
              calls |-> <<PromptCall("query-generator")>>]
        ELSE IF ~modelCompletion.ok
        THEN [threw |-> TRUE, value |-> NoQuery, error |-> GenerateFailedMessage,
              calls |-> <<PromptCall("query-generator"), ChatCall("query_generator"),
                          ChatCall("query_generator")>>]
        ELSE IF ~extracted.ok
        THEN [threw |-> TRUE, value |-> NoQuery, error |-> GenerateFailedMessage,
              calls |-> <<PromptCall("query-generator"), ChatCall("query_generator")>>]
        ELSE [threw |-> FALSE, value |-> extracted.value, error |-> "",
              calls |-> <<PromptCall("query-generator"), ChatCall("query_generator")>>]

\* AnalyticsService.generateQuery: any failure is rethrown as one message.
generateQuery(promptOutcome, modelCompletion) ==
    LET extracted == extractStructured(modelCompletion, QueryGeneratorSchema)
    IN  IF ~promptOutcome.ok
        THEN [threw |-> TRUE, value |-> NoQuery, error |-> GenerateFailedMessage,
              calls |-> <<PromptCall("query-generator")>>]
        ELSE IF ~extracted.ok
        THEN [threw |-> TRUE, value |-> NoQuery, error |-> GenerateFailedMessage,
              calls |-> <<PromptCall("query-generator"), ChatCall("query_generator")>>]
        ELSE [threw |-> FALSE, value |-> extracted.value, error |-> "",
              calls |-> <<PromptCall("query-generator"), ChatCall("query_generator")>>]

allowedQueryTypes ==
    {"rank_accounts_by_expense", "total_spending_by_category",
     "count_archived_transactions", "count_remaining_installments",
     "total_credit_card_debt", "rank_accounts_by_transaction_count"}

QueryTypeOf(query) ==
    IF "query_type" \in DOMAIN query THEN query.query_type ELSE "undefined"

RECURSIVE Contains(_, _)
Contains(s, w) ==
    IF Len(s) < Len(w) THEN FALSE
    ELSE SubSeq(s, 1, Len(w)) = w \/ Contains(Tail(s), w)

\* Mutation: a fail-open substring match instead of exact equality.
IsSafeDecision_Substring(content) == Contains(toUpperCase(trim(content)), SAFE)

\* The validator's decision on an answer: validationResponse.content.trim().toUpperCase()
\* === 'SAFE'.
IsSafeDecision(content) == toUpperCase(trim(content)) = SAFE

\* Mutation: stage 1, the allow-list check, is skipped.
validateQuery_NoAllowList(query, promptOutcome, modelCompletion) ==
    IF ~promptOutcome.ok
    THEN Threw(PromptNotFoundMessage, <<PromptCall("query-validator")>>)
    ELSE IF ~modelCompletion.ok
    THEN Threw(AIRequestFailedMessage,
               <<PromptCall("query-validator"), ChatCall("query-validator")>>)
    ELSE Returned(IsSafeDecision(modelCompletion.content),
                  <<PromptCall("query-validator"), ChatCall("query-validator")>>)

\* Mutation: stage 2 accepts whatever the validator model answers.
validateQuery_AnyAnswer(query, promptOutcome, modelCompletion) ==
    IF QueryTypeOf(query) \notin allowedQueryTypes
    THEN Returned(FALSE, <<>>)
    ELSE IF ~promptOutcome.ok
    THEN Threw(PromptNotFoundMessage, <<PromptCall("query-validator")>>)
    ELSE IF ~modelCompletion.ok
    THEN Threw(AIRequestFailedMessage,
               <<PromptCall("query-validator"), ChatCall("query-validator")>>)
    ELSE Returned(TRUE, <<PromptCall("query-validator"), ChatCall("query-validator")>>)

\* AnalyticsService.validateQuery.  processText passes no responseFormat, so the
\* content is read as the model gave it.
validateQuery(query, promptOutcome, modelCompletion) ==
    IF QueryTypeOf(query) \notin allowedQueryTypes
    THEN Returned(FALSE, <<>>)
    ELSE IF ~promptOutcome.ok
    THEN Threw(PromptNotFoundMessage, <<PromptCall("query-validator")>>)
    ELSE IF ~modelCompletion.ok
    THEN Threw(AIRequestFailedMessage,
               <<PromptCall("query-validator"), ChatCall("query-validator")>>)
    ELSE Returned(IsSafeDecision(modelCompletion.content),
                  <<PromptCall("query-validator"), ChatCall("query-validator")>>)

\* AnalyticsService.executeQuery: the one aggregation of each query type.
Aggregation(queryType) ==
    CASE queryType = "rank_accounts_by_expense" -> "getAccountsRankedByExpenses"
      [] queryType = "total_spending_by_category" -> "getExpensesSummary"
      [] queryType = "count_archived_transactions" -> "countArchived"
      [] queryType = "count_remaining_installments" -> "countRemainingInstallments"
      [] queryType = "total_credit_card_debt" -> "getTotalDebt"
      [] queryType = "rank_accounts_by_transaction_count" -> "getAccountsRankedByTransactionCount"
      [] OTHER -> "unsupported"

DbOutcomes == {"empty", "rows", "throws"}

executeQuery(query, dbOutcome) ==
    IF Aggregation(QueryTypeOf(query)) = "unsupported"
    THEN Threw(UnsupportedMessage, <<>>)
    ELSE IF dbOutcome = "throws"
    THEN Threw(DatabaseErrorMessage, <<RepoCall(Aggregation(QueryTypeOf(query)))>>)
    ELSE Returned(dbOutcome, <<RepoCall(Aggregation(QueryTypeOf(query)))>>)

\* AnalyticsService.formatResponse: a list, a count sentence, or the "no data"
\* message of the query type.
formatResponse(query, result) ==
    LET qt == QueryTypeOf(query)
    IN  CASE qt \in {"count_archived_transactions", "count_remaining_installments"} ->
                "You have N ..."
          [] qt \in allowedQueryTypes /\ result = "empty" -> "No data found."
          [] qt \in allowedQueryTypes /\ result # "empty" -> "Ranking / breakdown"
          [] OTHER -> "I was able to fetch the data, but I don't know how to display it."

\* What the validator model may answer.
ValidatorAnswers ==
    { <<"S", "A", "F", "E">>,
      <<"s", "a", "f", "e">>,
      <<"S", "a", "f", "e">>,
      <<" ", "S", "A", "F", "E", "\n">>,
      <<"\n", "s", "a", "f", "e", " ", " ">>,
      <<"S", "A", "F", "E", ".">>,
      <<"S", "A", "F", "E", " ", "-", " ", "r", "e", "a", "d", " ", "o", "n", "l", "y">>,
      <<"N", "O", "T", " ", "S", "A", "F", "E">>,
      <<"U", "N", "S", "A", "F", "E">>,
      <<"S", " ", "A", "F", "E">>,
      <<"S", "A", "F">>,
      <<>>,
      <<" ">>,
      <<"D", "E", "S", "T", "R", "U", "C", "T", "I", "V", "E">>,
      <<"d", "e", "s", "t", "r", "u", "c", "t", "i", "v", "e">> }

ValidatorCompletions == {ChatFailed} \cup {ChatReturned(a) : a \in ValidatorAnswers}

\* handleCustomReportQuery receives the text of a query_report message.
ReceiveQuery ==
    /\ apc \in {"idle", "done"}
    /\ apc' = "generateQuery"
    /\ genCompletion' = NoCompletion
    /\ generatedQuery' = NoQuery
    /\ verdict' = NoVerdict
    /\ results' = "none"
    /\ response' = ""
    /\ error' = ""
    /\ trace' = <<>>
    /\ reply' = NoReply
    /\ UNCHANGED otherThanAnalytics

\* processNaturalLanguageQuery, step 1.
GenerateQuery ==
    /\ apc = "generateQuery"
    /\ \E p \in PromptOutcomes, c \in Completions(QueryObjects) :
          LET r == generateQuery(p, c)
          IN  /\ genCompletion' =
                    IF p.ok THEN [ok |-> c.ok, content |-> c.content, asked |-> TRUE]
                    ELSE NoCompletion
              /\ generatedQuery' = r.value
              /\ error' = r.error
              /\ trace' = trace \o r.calls
              /\ apc' = IF r.threw THEN "catch" ELSE "validateQuery"
    /\ UNCHANGED <<verdict, results, response, reply, otherThanAnalytics>>

\* processNaturalLanguageQuery, step 2: validateQuery, and the throw on false.
ValidateQuery ==
    /\ apc = "validateQuery"
    /\ \E p \in PromptOutcomes, c \in ValidatorCompletions :
          LET r == validateQuery(generatedQuery, p, c)
              asked == Len(r.calls) = 2 /\ c.ok
          IN  /\ verdict' = [called |-> TRUE,
                             query |-> generatedQuery,
                             returned |-> ~r.threw,
                             asked |-> asked,
                             answer |-> IF asked THEN c.content ELSE <<>>,
                             isSafe |-> r.value]
              /\ error' = IF r.threw THEN r.error
                          ELSE IF ~r.value THEN UnsafeMessage ELSE ""
              /\ trace' = trace \o r.calls
              /\ apc' = IF r.threw \/ ~r.value THEN "catch" ELSE "executeQuery"
    /\ UNCHANGED <<genCompletion, generatedQuery, results, response, reply, otherThanAnalytics>>

\* processNaturalLanguageQuery, step 3.
ExecuteQuery ==
    /\ apc = "executeQuery"
    /\ \E d \in DbOutcomes :
          LET r == executeQuery(generatedQuery, d)
          IN  /\ results' = IF r.threw THEN "none" ELSE r.value
              /\ error' = r.error
              /\ trace' = trace \o r.calls
              /\ apc' = IF r.threw THEN "catch" ELSE "formatResponse"
    /\ UNCHANGED <<genCompletion, generatedQuery, verdict, response, reply, otherThanAnalytics>>

\* processNaturalLanguageQuery, step 4.
FormatResponse ==
    /\ apc = "formatResponse"
    /\ response' = formatResponse(generatedQuery, results)
    /\ apc' = "reply"
    /\ UNCHANGED <<genCompletion, generatedQuery, verdict, results, error, trace, reply,
                   otherThanAnalytics>>

\* handleCustomReportQuery: ctx.reply(result).
ReplyResult ==
    /\ apc = "reply"
    /\ reply' = [sent |-> TRUE, kind |-> "result", text |-> response]
    /\ apc' = "done"
    /\ UNCHANGED <<genCompletion, generatedQuery, verdict, results, response, error, trace,
                   otherThanAnalytics>>

\* handleCustomReportQuery: the catch block replies with the error's message.
ReplyError ==
    /\ apc = "catch"
    /\ reply' = [sent |-> TRUE, kind |-> "error", text |-> error]
    /\ apc' = "done"
    /\ UNCHANGED <<genCompletion, generatedQuery, verdict, results, response, error, trace,
                   otherThanAnalytics>>

InitAnalytics == AnalyticsIdle /\ HarnessIdle /\ IntentIdle /\ TextIdle /\ BotIdle /\ PromptIdle /\ ExpenseIdle

NextAnalytics ==
    \/ ReceiveQuery
    \/ GenerateQuery
    \/ ValidateQuery
    \/ ExecuteQuery
    \/ FormatResponse
    \/ ReplyResult
    \/ ReplyError

SpecAnalytics == InitAnalytics /\ [][NextAnalytics]_vars

(***************************************************************************)
(* validateQuery called directly, also with queries that no successful     *)
(* generateQuery produces.                                                 *)
(***************************************************************************)
DirectQueries ==
    {[query_type |-> qt, time_period |-> "all_time", include_archived |-> ia] :
        qt \in QueryTypeEnum \cup {"delete_all_transactions", "update_balance"},
        ia \in BOOLEAN}
      \cup {[time_period |-> "all_time", include_archived |-> FALSE]}

InitValidate ==
    /\ HarnessIdle
    /\ IntentIdle
    /\ TextIdle
    /\ BotIdle
    /\ PromptIdle
    /\ ExpenseIdle
    /\ apc = "validateQuery"
    /\ genCompletion = NoCompletion
    /\ generatedQuery \in DirectQueries
    /\ verdict = NoVerdict
    /\ results = "none"
    /\ response = ""
    /\ error = ""
    /\ trace = <<>>
    /\ reply = NoReply

NextValidate == ValidateQuery

SpecValidate == InitValidate /\ [][NextValidate]_vars

(***************************************************************************)
(* Intent Orchestrator: Orchestrator.analyzeIntent, one step per awaited   *)
(* call or parsing step of its body.                                       *)
(***************************************************************************)
\* JSON objects an orchestrator completion may carry.
IntentObjects ==
    { Opt(Opt(Opt(Opt(EmptyObject, "intent", it), "confidence", co), "reasoning", re),
          "entities", ex) :
        it \in {<<>>, <<"track_expense">>, <<"query_report">>, <<"unknown">>,
                <<"delete_everything">>},
        co \in {<<>>, <<0>>, <<95>>, <<150>>},
        re \in {<<>>, <<"mentions a purchase">>},
        ex \in {<<>>, <<"amount 5">>} }

\* Mutation: the prompt fetch happens before the try block.
TryBlock_PromptOutside == {"chat", "parse", "validate"}

\* The steps of analyzeIntent that the try block encloses.
TryBlock == {"getPrompt", "chat", "parse", "validate"}

\* Where control goes when a step throws.
OnThrow(step) == IF step \in TryBlock THEN "catch" ELSE "threw"

FallbackDecision ==
    [intent |-> "unknown", confidence |-> 0, reasoning |-> "Failed to analyze intent"]

\* A message arrives and analyzeIntent is called.
AnalyzeIntent ==
    /\ ipc \in {"idle", "returned"}
    /\ ipc' = "getPrompt"
    /\ intentFailure' = "none"
    /\ intentResponse' = <<>>
    /\ intentParsed' = NoParse
    /\ decision' = NoDecision
    /\ UNCHANGED otherThanIntent

\* promptManager.getPromptWithConfig('orchestrator-intent', ...)
IntentGetPrompt ==
    /\ ipc = "getPrompt"
    /\ \E promptOutcome \in PromptOutcomes :
          IF promptOutcome.ok
          THEN ipc' = "chat" /\ UNCHANGED intentFailure
          ELSE ipc' = OnThrow("getPrompt") /\ intentFailure' = "getPrompt"
    /\ UNCHANGED <<intentResponse, intentParsed, decision, otherThanIntent>>

\* client.chat(..., responseFormat json_schema)
IntentChat ==
    /\ ipc = "chat"
    /\ \E completion \in Completions(IntentObjects) :
          LET chatResponse == chatJson(completion)
          IN  IF chatResponse.ok
              THEN /\ intentResponse' = chatResponse.content
                   /\ ipc' = "parse"
                   /\ UNCHANGED intentFailure
              ELSE /\ ipc' = OnThrow("chat")
                   /\ intentFailure' = "chat"
                   /\ UNCHANGED intentResponse
    /\ UNCHANGED <<intentParsed, decision, otherThanIntent>>

\* JSON.parse(stripMarkdownCodeFences(response.content))
IntentParse ==
    /\ ipc = "parse"
    /\ LET parsed == JSONParse(stripMarkdownCodeFences(intentResponse))
       IN  IF parsed.ok
           THEN /\ intentParsed' = parsed
                /\ ipc' = "validate"
                /\ UNCHANGED intentFailure
           ELSE /\ ipc' = OnThrow("parse")
                /\ intentFailure' = "parse"
                /\ UNCHANGED intentParsed
    /\ UNCHANGED <<intentResponse, decision, otherThanIntent>>

\* OrchestratorDecisionSchema.parse(parsed); return decision
IntentValidate ==
    /\ ipc = "validate"
    /\ LET validated == IF intentParsed.kind = "object"
                        THEN ZodParse(OrchestratorDecisionSchema, intentParsed.value)
                        ELSE [ok |-> FALSE, error |-> "ZodError"]
       IN  IF validated.ok
           THEN /\ decision' = validated.value
                /\ ipc' = "returned"
                /\ UNCHANGED intentFailure
           ELSE /\ ipc' = OnThrow("validate")
                /\ intentFailure' = "validate"
                /\ UNCHANGED decision
    /\ UNCHANGED <<intentResponse, intentParsed, otherThanIntent>>

\* catch (error): return the fallback decision
IntentCatch ==
    /\ ipc = "catch"
    /\ decision' = FallbackDecision
    /\ ipc' = "returned"
    /\ UNCHANGED <<intentFailure, intentResponse, intentParsed, otherThanIntent>>

InitIntent == HarnessIdle /\ AnalyticsIdle /\ IntentIdle /\ TextIdle /\ BotIdle /\ PromptIdle /\ ExpenseIdle

NextIntent ==
    \/ AnalyzeIntent
    \/ IntentGetPrompt
    \/ IntentChat
    \/ IntentParse
    \/ IntentValidate
    \/ IntentCatch

SpecIntent == InitIntent /\ [][NextIntent]_vars

(***************************************************************************)
(* Dates.  new Date('YYYY-MM-DD') and Date.prototype.setMonth, on calendar *)
(* dates in one time zone.                                                 *)
(***************************************************************************)
\* new Date(text) of a 'YYYY-MM-DD' text: months are counted from 0, as getMonth does.
NewDate(text) ==
    [year  |-> 1000 * DigitValue(text[1]) + 100 * DigitValue(text[2])
                 + 10 * DigitValue(text[3]) + DigitValue(text[4]),
     month |-> 10 * DigitValue(text[6]) + DigitValue(text[7]) - 1,
     day   |-> 10 * DigitValue(text[9]) + DigitValue(text[10])]

IsLeapYear(y) == (y % 4 = 0 /\ y % 100 # 0) \/ y % 400 = 0

DaysInMonth(y, m) ==
    IF m = 1 THEN (IF IsLeapYear(y) THEN 29 ELSE 28)
    ELSE IF m \in {3, 5, 8, 10} THEN 30
    ELSE 31

\* date.setMonth(monthValue), monthValue >= 0: the month is set, years carry over,
\* and a day past the end of that month runs over into the following month.
setMonth(date, monthValue) ==
    LET y == date.year + (monthValue \div 12)
        m == monthValue % 12
        over == date.day - DaysInMonth(y, m)
    IN  IF over <= 0 THEN [year |-> y, month |-> m, day |-> date.day]
        ELSE IF m = 11 THEN [year |-> y + 1, month |-> 0, day |-> over]
        ELSE [year |-> y, month |-> m + 1, day |-> over]

\* Mutation: purchase group ids are not fresh.
uuidv4_Constant(generated) == 1

\* uuidv4(): an id no earlier call returned; generated counts the earlier calls.
uuidv4(generated) == generated + 1

(***************************************************************************)
(* Persistence: the accounts and categories tables and their lookups.      *)
(***************************************************************************)
MainChecking == [id |-> 1, name |-> "Main Checking", type |-> "bank"]
BBVACard == [id |-> 2, name |-> "BBVA Credit Card", type |-> "credit_card"]

\* The accounts tables a deployment may have been set up with.
AccountTables == {{}, {MainChecking}, {MainChecking, BBVACard}}

Categories == {[id |-> 1, name |-> "Food"]}

NoRow == [id |-> 0, name |-> NULL, type |-> NULL]

\* Case folding of the names that occur, for ILIKE.
Lower(name) ==
    CASE name = "Main Checking"    -> "main checking"
      [] name = "BBVA Credit Card" -> "bbva credit card"
      [] name = "Food"             -> "food"
      [] OTHER                     -> name

\* An absent key reads as undefined; undefined and null are not told apart below.
Get(obj, key) == IF key \in DOMAIN obj THEN obj[key] ELSE NULL

\* JavaScript falsiness of an optional string.
Falsy(v) == v \in {NULL, ""}

\* SELECT * FROM t WHERE name ILIKE $1: no row matches a null parameter.
findByName(table, name) ==
    LET rows == {r \in table : name # NULL /\ Lower(r.name) = Lower(name)}
    IN  IF rows # {} THEN CHOOSE r \in rows : TRUE ELSE NoRow

\* SELECT * FROM t WHERE id = $1
findById(table, id) ==
    LET rows == {r \in table : r.id = id}
    IN  IF rows # {} THEN CHOOSE r \in rows : TRUE ELSE NoRow

(***************************************************************************)
(* ExpenseTrackerService.  A call returns the rows it inserted, the number *)
(* of INSERTs it issued, and whether it threw.  failAt = k > 0 makes the   *)
(* k-th INSERT of the call throw; failAt = 0 lets every INSERT succeed.    *)
(***************************************************************************)
Saved(txRows, purchaseRows, inserts) ==
    [threw |-> FALSE, message |-> "", txRows |-> txRows, purchaseRows |-> purchaseRows,
     inserts |-> inserts]

Failed(message, purchaseRows, inserts) ==
    [threw |-> TRUE, message |-> message, txRows |-> <<>>, purchaseRows |-> purchaseRows,
     inserts |-> inserts]

\* transactionRepo.create: one INSERT INTO transactions.
createTransaction(row, failAt) ==
    IF failAt = 1 THEN Failed("database error", <<>>, 1)
    ELSE Saved(<<row>>, <<>>, 1)

recordIncome(data, db, failAt) ==
    IF findById(db, data.accountId) = NoRow
    THEN Failed("Account not found (id)", <<>>, 0)
    ELSE createTransaction(
            [type |-> "income", date |-> data.date, description |-> data.description,
             fromAccountId |-> 0, toAccountId |-> data.accountId,
             amount |-> data.amount, categoryId |-> 0], failAt)

recordTransfer(data, db, failAt) ==
    IF findById(db, data.fromAccountId) = NoRow
    THEN Failed("From account not found (id)", <<>>, 0)
    ELSE IF findById(db, data.toAccountId) = NoRow
    THEN Failed("To account not found (id)", <<>>, 0)
    ELSE createTransaction(
            [type |-> "transfer", date |-> data.date, description |-> data.description,
             fromAccountId |-> data.fromAccountId, toAccountId |-> data.toAccountId,
             amount |-> data.toAmount, categoryId |-> 0], failAt)

recordExpense(data, db, failAt) ==
    IF findById(db, data.accountId) = NoRow
    THEN Failed("Account not found (id)", <<>>, 0)
    ELSE IF findById(Categories, data.categoryId) = NoRow
    THEN Failed("Category not found (id)", <<>>, 0)
    ELSE createTransaction(
            [type |-> "expense", date |-> data.date, description |-> data.description,
             fromAccountId |-> data.accountId, toAccountId |-> 0,
             amount |-> data.amount, categoryId |-> data.categoryId], failAt)

recordCreditCardPayment(fromAccountId, creditCardAccountId, amount, date, description, db, failAt) ==
    IF findById(db, fromAccountId) = NoRow
    THEN Failed("From account not found (id)", <<>>, 0)
    ELSE IF findById(db, creditCardAccountId) = NoRow
    THEN Failed("Credit card account not found (id)", <<>>, 0)
    ELSE IF findById(db, creditCardAccountId).type # "credit_card"
    THEN Failed("Account is not a credit card", <<>>, 0)
    ELSE createTransaction(
            [type |-> "credit_card_payment", date |-> date, description |-> description,
             fromAccountId |-> fromAccountId, toAccountId |-> creditCardAccountId,
             amount |-> amount, categoryId |-> 0], failAt)

\* Mutation: the installments are written in one database transaction, so a
\* failed insert leaves no row behind.
recordCreditCardPurchase_Atomic(data, db, purchaseGroupId, failAt) ==
    IF findById(db, data.creditCardAccountId) = NoRow
    THEN Failed("Credit card account not found (id)", <<>>, 0)
    ELSE IF findById(db, data.creditCardAccountId).type # "credit_card"
    THEN Failed("Account is not a credit card", <<>>, 0)
    ELSE IF failAt \in 1..data.totalInstallments
    THEN Failed("database error", <<>>, failAt)
    ELSE Saved(<<>>,
               [i \in 1..data.totalInstallments |->
                   [creditCardAccountId |-> data.creditCardAccountId,
                    date |-> setMonth(data.date, data.date.month + (i - 1)),
                    description |-> data.description,
                    amount |-> [total |-> data.totalAmount,
                                dividedBy |-> data.totalInstallments],
                    currency |-> data.currency,
                    categoryId |-> data.categoryId,
                    installmentNumber |-> i,
                    totalInstallments |-> data.totalInstallments,
                    purchaseGroupId |-> purchaseGroupId]],
               data.totalInstallments)

\* The installment rows are inserted one at a time, in order, outside any
\* database transaction; purchaseGroupId is a fresh uuid.
recordCreditCardPurchase(data, db, purchaseGroupId, failAt) ==
    LET N == data.totalInstallments
        Installment(i) ==
            [creditCardAccountId |-> data.creditCardAccountId,
             date |-> setMonth(data.date, data.date.month + (i - 1)),
             description |-> data.description,
             amount |-> [total |-> data.totalAmount, dividedBy |-> N],
             currency |-> data.currency,
             categoryId |-> data.categoryId,
             installmentNumber |-> i,
             totalInstallments |-> N,
             purchaseGroupId |-> purchaseGroupId]
    IN  IF findById(db, data.creditCardAccountId) = NoRow
        THEN Failed("Credit card account not found (id)", <<>>, 0)
        ELSE IF findById(db, data.creditCardAccountId).type # "credit_card"
        THEN Failed("Account is not a credit card", <<>>, 0)
        ELSE IF data.categoryId # 0 /\ findById(Categories, data.categoryId) = NoRow
        THEN Failed("Category not found (id)", <<>>, 0)
        ELSE IF failAt \in 1..N
        THEN Failed("database error", [i \in 1..(failAt - 1) |-> Installment(i)], failAt)
        ELSE Saved(<<>>, [i \in 1..N |-> Installment(i)], N)

(***************************************************************************)
(* expense.handler: the per-type handlers resolve the names the parser     *)
(* gave and call the service.                                              *)
(***************************************************************************)
CategoryIdOf(row) == row.id

handleIncome(parsed, db, failAt) ==
    LET account == findByName(db, Get(parsed, "toAccount"))
    IN  IF account = NoRow THEN Failed("Account not found", <<>>, 0)
        ELSE recordIncome([date |-> NewDate(parsed.date), description |-> parsed.description,
                           accountId |-> account.id, amount |-> parsed.amount,
                           currency |-> parsed.currency], db, failAt)

handleTransfer(parsed, db, failAt) ==
    LET fromAccount == findByName(db, Get(parsed, "fromAccount"))
        toAccount   == findByName(db, Get(parsed, "toAccount"))
        fromAmount  == IF "fromAmount" \in DOMAIN parsed /\ parsed.fromAmount # 0
                       THEN parsed.fromAmount ELSE parsed.amount
        toAmount    == IF "toAmount" \in DOMAIN parsed /\ parsed.toAmount # 0
                       THEN parsed.toAmount ELSE parsed.amount
    IN  IF fromAccount = NoRow THEN Failed("From account not found", <<>>, 0)
        ELSE IF toAccount = NoRow THEN Failed("To account not found", <<>>, 0)
        ELSE recordTransfer([date |-> NewDate(parsed.date), description |-> parsed.description,
                             fromAccountId |-> fromAccount.id,
                             toAccountId |-> toAccount.id,
                             fromAmount |-> fromAmount, toAmount |-> toAmount],
                            db, failAt)

handleExpense(parsed, db, failAt) ==
    LET account  == findByName(db, Get(parsed, "fromAccount"))
        category == findByName(Categories, Get(parsed, "category"))
    IN  IF account = NoRow THEN Failed("Account not found", <<>>, 0)
        ELSE IF category = NoRow THEN Failed("Category not found", <<>>, 0)
        ELSE recordExpense([date |-> NewDate(parsed.date), description |-> parsed.description,
                            accountId |-> account.id, amount |-> parsed.amount,
                            categoryId |-> CategoryIdOf(category)], db, failAt)

handleCreditCardPayment(parsed, db, failAt) ==
    LET fromAccount == findByName(db, Get(parsed, "fromAccount"))
        creditCard  == findByName(db, Get(parsed, "toAccount"))
    IN  IF fromAccount = NoRow THEN Failed("From account not found", <<>>, 0)
        ELSE IF creditCard = NoRow THEN Failed("Credit card not found", <<>>, 0)
        ELSE recordCreditCardPayment(fromAccount.id, creditCard.id, parsed.amount,
                                     NewDate(parsed.date), parsed.description, db,
                                     failAt)

\* parsed.toAccount || 'BBVA Credit Card'
CreditCardNameOf(parsed) ==
    IF Falsy(Get(parsed, "toAccount")) THEN "BBVA Credit Card" ELSE parsed.toAccount

handleCreditCardPurchase(parsed, db, purchaseGroupId, failAt) ==
    LET creditCard == findByName(db, CreditCardNameOf(parsed))
        category   == IF Falsy(Get(parsed, "category")) THEN NoRow
                      ELSE findByName(Categories, parsed.category)
        installments == IF "installments" \in DOMAIN parsed /\ parsed.installments # 0
                        THEN parsed.installments ELSE 1
    IN  IF creditCard = NoRow THEN Failed("Credit card not found", <<>>, 0)
        ELSE recordCreditCardPurchase(
                [creditCardAccountId |-> creditCard.id, date |-> NewDate(parsed.date),
                 description |-> parsed.description, totalAmount |-> parsed.amount,
                 currency |-> parsed.currency, categoryId |-> CategoryIdOf(category),
                 totalInstallments |-> installments],
                db, purchaseGroupId, failAt)

\* Mutation: the confidence gate is removed.
LowConfidence_Never(parsed) == FALSE

\* parsed.confidence < 50
LowConfidence(parsed) == parsed.confidence < 50

\* What handling one update did: the reply, the error message if any, the parsed
\* transaction if there is one, the rows inserted and the INSERTs issued.
Outcome(kind, replyKind, message, parsed, saved) ==
    [kind |-> kind, reply |-> replyKind, error |-> message, parsed |-> parsed,
     txRows |-> saved.txRows, purchaseRows |-> saved.purchaseRows,
     inserts |-> saved.inserts]

Nothing == Saved(<<>>, <<>>, 0)

\* handleExpenseMessage, from the prompt fetch to the reply.
handleExpenseMessage(promptOutcome, completion, db, purchaseGroupId, failAt) ==
    LET extracted == extractStructured(completion, ExpenseParserSchema)
        parsed    == extracted.value
        saved     ==
            CASE parsed.type = "income"   -> handleIncome(parsed, db, failAt)
              [] parsed.type = "transfer" -> handleTransfer(parsed, db, failAt)
              [] parsed.type = "expense"  -> handleExpense(parsed, db, failAt)
              [] parsed.type = "credit_card_payment" ->
                    handleCreditCardPayment(parsed, db, failAt)
              [] parsed.type = "credit_card_purchase" ->
                    handleCreditCardPurchase(parsed, db, purchaseGroupId, failAt)
              [] OTHER -> Failed("Unknown transaction type", <<>>, 0)
    IN  IF ~promptOutcome.ok
        THEN Outcome("message", "error", PromptNotFoundMessage, NoPending, Nothing)
        ELSE IF ~extracted.ok
        THEN Outcome("message", "could_not_understand", "", NoPending, Nothing)
        ELSE IF LowConfidence(parsed)
        THEN Outcome("message", "clarify", "", parsed, Nothing)
        ELSE IF parsed.type = "expense" /\ Falsy(Get(parsed, "fromAccount")) /\ db # {}
        THEN Outcome("message", "which_account", "", parsed, Nothing)
        ELSE IF saved.threw
        THEN Outcome("message", "error", saved.message, parsed, saved)
        ELSE Outcome("message", "success", "", parsed, saved)

\* The complete_expense_account branch of the callback_query handler.
completeExpenseAccount(pendingTransaction, accountId, db, failAt) ==
    LET account   == findById(db, accountId)
        completed == With(pendingTransaction, "fromAccount", account.name)
        saved     == handleExpense(completed, db, failAt)
    IN  IF pendingTransaction = NoPending
        THEN [out |-> Outcome("callback", "expired", "", NoPending, Nothing),
              session |-> pendingTransaction]
        ELSE IF account = NoRow
        THEN [out |-> Outcome("callback", "account_not_found", "", pendingTransaction,
                              Nothing),
              session |-> pendingTransaction]
        ELSE IF saved.threw
        THEN [out |-> Outcome("callback", "save_error", saved.message, completed, saved),
              session |-> completed]
        ELSE [out |-> Outcome("callback", "success", "", completed, saved),
              session |-> NoPending]

(***************************************************************************)
(* What the expense parser may be answered.                                *)
(***************************************************************************)
Confidences == {49, 50}

TransactionObject(ty, desc, co, fa, ta, ca, ins) ==
    Opt(Opt(Opt(Opt(
        [type |-> ty, description |-> desc, amount |-> 5, currency |-> "USD",
         date |-> GoodDate, confidence |-> co],
        "fromAccount", fa), "toAccount", ta), "category", ca), "installments", ins)

TransactionObjects ==
    { TransactionObject("income", "salary", co, <<>>, ta, <<>>, <<>>) :
        co \in Confidences, ta \in {<<>>, <<"Main Checking">>, <<"Ghost Account">>} }
      \cup
    { TransactionObject("transfer", "top up", co, fa, ta, <<>>, <<>>) :
        co \in Confidences, fa \in {<<>>, <<"main checking">>},
        ta \in {<<>>, <<"BBVA Credit Card">>} }
      \cup
    { TransactionObject("expense", desc, co, fa, <<>>, ca, <<>>) :
        desc \in {"coffee", "rent"}, co \in Confidences,
        fa \in {<<>>, <<"main checking">>, <<"Ghost Account">>},
        ca \in {<<>>, <<"Food">>} }
      \cup
    { TransactionObject("credit_card_payment", "card bill", co, fa, ta, <<>>, <<>>) :
        co \in Confidences, fa \in {<<>>, <<"main checking">>},
        ta \in {<<"Main Checking">>, <<"BBVA Credit Card">>} }
      \cup
    { TransactionObject("credit_card_purchase", "laptop", co, <<>>, ta, ca, ins) :
        co \in Confidences,
        ta \in {<<>>, <<"Main Checking">>, <<"BBVA Credit Card">>},
        ca \in {<<>>, <<"Food">>},
        ins \in {<<>>, <<MaxInstallments>>} }

\* What the model may also answer: objects ExpenseParserSchema does not accept.
InvalidTransactionObjects ==
    LET good == TransactionObject("expense", "coffee", 95, <<"main checking">>, <<>>, <<>>, <<>>)
        card == TransactionObject("credit_card_purchase", "laptop", 95, <<>>,
                                  <<"BBVA Credit Card">>, <<>>, <<0>>)
    IN  { [good EXCEPT !.amount = 0],
          [good EXCEPT !.type = "refund"],
          [good EXCEPT !.currency = "GBP"],
          [good EXCEPT !.confidence = 101],
          [k \in DOMAIN good \ {"amount"} |-> good[k]],
          card }

ParserCompletions ==
    {ChatFailed, ChatReturned(<<Prose>>)}
      \cup {ChatReturned(<<JsonObject(obj)>>) :
                obj \in TransactionObjects \cup InvalidTransactionObjects}

(***************************************************************************)
(* The bot handles one update at a time (long polling).                    *)
(***************************************************************************)
Apply(out, session, shown) ==
    /\ transactions' = transactions \o out.txRows
    /\ purchases' = purchases \o out.purchaseRows
    /\ uuids' = IF out.purchaseRows # <<>> \/ (out.inserts > 0 /\ out.txRows = <<>>
                                                /\ out.parsed.type = "credit_card_purchase")
                THEN uuids + 1 ELSE uuids
    /\ pending' = session
    /\ keyboards' = shown
    /\ last' = out
    /\ updates' = updates + 1
    /\ UNCHANGED <<accounts, categories, otherThanExpense>>

\* A text message routed to handleExpenseMessage.
HandleExpenseMessage ==
    /\ updates < MaxUpdates
    /\ \E promptOutcome \in PromptOutcomes :
       \E completion \in IF promptOutcome.ok THEN ParserCompletions ELSE {ChatFailed},
          failAt \in IF promptOutcome.ok THEN 0..MaxInstallments ELSE {0} :
          LET out == handleExpenseMessage(promptOutcome, completion, accounts,
                                          uuidv4(uuids), failAt)
          IN  \* the database can only fail at an INSERT that is issued
              /\ failAt > 0 => out.inserts = failAt
              /\ IF out.reply = "which_account"
                 THEN Apply(out, out.parsed,
                            Append(keyboards, [presented |-> out.parsed,
                                               buttons |-> {a.id : a \in accounts},
                                               showing |-> TRUE]))
                 ELSE Apply(out, pending, keyboards)

\* The user taps an account button of a keyboard that still shows.
CompleteExpenseAccount ==
    /\ updates < MaxUpdates
    /\ \E k \in 1..Len(keyboards), failAt \in 0..1 :
          /\ keyboards[k].showing
          /\ \E accountId \in keyboards[k].buttons :
                LET done == completeExpenseAccount(pending, accountId, accounts, failAt)
                IN  Apply([done.out EXCEPT !.kind = "callback"] @@
                              [keyboard |-> k, accountId |-> accountId],
                          done.session,
                          [keyboards EXCEPT ![k].showing = FALSE])

\* A text message routed to another handler: balance, listing, report, chat.
HandleOtherMessage ==
    /\ updates < MaxUpdates
    /\ last' = [kind |-> "other"]
    /\ updates' = updates + 1
    /\ UNCHANGED <<accounts, categories, transactions, purchases, uuids, pending,
                   keyboards, otherThanExpense>>

InitExpense ==
    /\ HarnessIdle
    /\ AnalyticsIdle
    /\ IntentIdle
    /\ TextIdle
    /\ BotIdle
    /\ PromptIdle
    /\ accounts \in AccountTables
    /\ categories = Categories
    /\ transactions = <<>>
    /\ purchases = <<>>
    /\ uuids = 0
    /\ pending = NoPending
    /\ keyboards = <<>>
    /\ updates = 0
    /\ last = NoUpdate

NextExpense ==
    \/ HandleExpenseMessage
    \/ CompleteExpenseAccount
    \/ HandleOtherMessage

SpecExpense == InitExpense /\ [][NextExpense]_vars

(***************************************************************************)
(* recordCreditCardPurchase called directly, on a ledger with a bank       *)
(* account and a credit card.                                              *)
(***************************************************************************)
EndOfJanuary == <<"2", "0", "2", "5", "-", "0", "1", "-", "3", "1">>
EndOfDecember == <<"2", "0", "2", "3", "-", "1", "2", "-", "3", "0">>

PurchaseDates == {GoodDate, EndOfJanuary, EndOfDecember}

PurchaseData ==
    { [creditCardAccountId |-> id, date |-> NewDate(d), description |-> "laptop",
       totalAmount |-> 100, currency |-> "USD", categoryId |-> c,
       totalInstallments |-> n] :
        id \in {MainChecking.id, BBVACard.id}, d \in PurchaseDates, c \in {0, 1},
        n \in 1..MaxTotalInstallments }

RecordCreditCardPurchase ==
    /\ updates < MaxPurchases
    /\ \E data \in PurchaseData, failAt \in 0..MaxTotalInstallments :
          LET saved == recordCreditCardPurchase(data, accounts, uuidv4(uuids), failAt)
          IN  /\ failAt > 0 => saved.inserts = failAt
              /\ purchases' = purchases \o saved.purchaseRows
              /\ uuids' = IF saved.inserts > 0 THEN uuids + 1 ELSE uuids
              /\ last' = [kind |-> "recordCreditCardPurchase", data |-> data,
                          threw |-> saved.threw, error |-> saved.message,
                          inserts |-> saved.inserts,
                          purchaseRows |-> saved.purchaseRows,
                          before |-> Len(purchases)]
    /\ updates' = updates + 1
    /\ UNCHANGED <<accounts, categories, transactions, pending, keyboards,
                   otherThanExpense>>

InitPurchase ==
    /\ HarnessIdle
    /\ AnalyticsIdle
    /\ IntentIdle
    /\ TextIdle
    /\ BotIdle
    /\ PromptIdle
    /\ accounts = {MainChecking, BBVACard}
    /\ categories = Categories
    /\ transactions = <<>>
    /\ purchases = <<>>
    /\ uuids = 0
    /\ pending = NoPending
    /\ keyboards = <<>>
    /\ updates = 0
    /\ last = NoUpdate

NextPurchase == RecordCreditCardPurchase

SpecPurchase == InitPurchase /\ [][NextPurchase]_vars

(***************************************************************************)
(* The six aggregations over the stored tables (repositories).  Each is    *)
(* one SELECT statement; "tables" is the database the statement runs on.   *)
(* Dates are compared by day.                                              *)
(***************************************************************************)
Tables(a, c, t, p) == [accounts |-> a, categories |-> c, transactions |-> t, purchases |-> p]

DayNumber(date) == (date.year * 12 + date.month) * 31 + date.day

\* new Date() at the time of the request, and its getDay().
Today == NewDate(GoodDate)
TodayWeekday == 6

Epoch == [year |-> 1970, month |-> 0, day |-> 1]

\* setDate(getDate() - dayOfWeek): a day before the 1st is a day of the month before.
setDate(date, dayValue) ==
    IF dayValue >= 1 THEN [date EXCEPT !.day = dayValue]
    ELSE IF date.month = 0
    THEN [year |-> date.year - 1, month |-> 11, day |-> 31 + dayValue]
    ELSE [year |-> date.year, month |-> date.month - 1,
          day |-> DaysInMonth(date.year, date.month - 1) + dayValue]

getDateRange(timePeriod) ==
    [startDate |->
        CASE timePeriod = "today" -> Today
          [] timePeriod = "this_week" -> setDate(Today, Today.day - TodayWeekday)
          [] timePeriod = "this_month" -> [Today EXCEPT !.day = 1]
          [] timePeriod = "this_year" -> [Today EXCEPT !.month = 0, !.day = 1]
          [] OTHER -> Epoch,
     endDate |-> Today]

RECURSIVE Sum(_)
Sum(numbers) == IF numbers = <<>> THEN 0 ELSE Head(numbers) + Sum(Tail(numbers))

\* The column an ORDER BY of the rankings sorts on.
RankedBy(row) ==
    IF "total_expenses" \in DOMAIN row THEN row.total_expenses
    ELSE IF "total_amount" \in DOMAIN row THEN row.total_amount
    ELSE row.transaction_count

\* ORDER BY ... ASC / DESC; rows that tie come in an order SQL leaves open.
RECURSIVE OrderBy(_, _)
OrderBy(rows, sort) ==
    IF rows = {} THEN <<>>
    ELSE LET first == CHOOSE r \in rows : \A o \in rows :
                          IF sort = "asc" THEN RankedBy(r) <= RankedBy(o)
                          ELSE RankedBy(r) >= RankedBy(o)
         IN  <<first>> \o OrderBy(rows \ {first}, sort)

Limit(rows, n) == SubSeq(rows, 1, IF n < Len(rows) THEN n ELSE Len(rows))

\* Mutation: the statement also archives every transaction.
Select_Archiving(tables, rows) ==
    [rows |-> rows,
     tables |-> [tables EXCEPT !.transactions =
                    [i \in 1..Len(tables.transactions) |->
                        [tables.transactions[i] EXCEPT !.is_archived = TRUE]]]]

\* pool.query of a SELECT statement: the rows it yields, the tables as they were.
Select(tables, rows) == [rows |-> rows, tables |-> tables]

\* Mutation: the is_archived filter is never applied.
InRange_IncludingArchived(t, options) ==
    /\ DayNumber(t.date) >= DayNumber(options.startDate)
    /\ DayNumber(t.date) <= DayNumber(options.endDate)

\* AND t.date >= $1 AND t.date <= $2, and the is_archived filter when asked for.
InRange(t, options) ==
    /\ DayNumber(t.date) >= DayNumber(options.startDate)
    /\ DayNumber(t.date) <= DayNumber(options.endDate)
    /\ options.includeArchived \/ ~t.is_archived

\* The operands of SUM(t.from_amount): the amounts of the rows numbered in "kept".
AmountsOf(txs, kept) == [i \in 1..Len(txs) |-> IF i \in kept THEN txs[i].amount ELSE 0]

getAccountsRankedByExpenses(tables, options) ==
    LET Joined(a, t) == t.fromAccountId = a.id /\ t.type = "expense" /\ InRange(t, options)
        Of(a) == {i \in 1..Len(tables.transactions) : Joined(a, tables.transactions[i])}
        groups == {a \in tables.accounts : Of(a) # {}}
    IN  Select(tables,
               Limit(OrderBy({[account_name |-> a.name,
                               total_expenses |-> Sum(AmountsOf(tables.transactions, Of(a)))] :
                                 a \in groups}, options.sort),
                     options.limit))

getAccountsRankedByTransactionCount(tables, options) ==
    LET Joined(a, t) == (t.fromAccountId = a.id \/ t.toAccountId = a.id) /\ InRange(t, options)
        Of(a) == {i \in 1..Len(tables.transactions) : Joined(a, tables.transactions[i])}
        groups == {a \in tables.accounts : Of(a) # {}}
    IN  Select(tables,
               Limit(OrderBy({[account_name |-> a.name, transaction_count |-> Cardinality(Of(a))] :
                                 a \in groups}, options.sort),
                     options.limit))

\* JOIN categories c ON t.category_id = c.id ... GROUP BY c.name, t.from_currency.
getExpensesSummary(tables, startDate, endDate) ==
    LET range == [startDate |-> startDate, endDate |-> endDate, includeArchived |-> FALSE]
        Joined(c, cur, t) ==
            t.categoryId = c.id /\ t.currency = cur /\ t.type = "expense" /\ InRange(t, range)
        Of(c, cur) == {i \in 1..Len(tables.transactions) : Joined(c, cur, tables.transactions[i])}
        Amounts(c, cur) == AmountsOf(tables.transactions, Of(c, cur))
        groups == {g \in tables.categories \X CurrencyEnum : Of(g[1], g[2]) # {}}
    IN  Select(tables,
               OrderBy({[category_name |-> g[1].name,
                         total_amount |-> Sum(Amounts(g[1], g[2])),
                         currency |-> g[2],
                         transaction_count |-> Cardinality(Of(g[1], g[2]))] : g \in groups},
                       "desc"))

countArchived(tables) ==
    Select(tables, <<[count |-> Cardinality({i \in 1..Len(tables.transactions) :
                                                tables.transactions[i].is_archived})]>>)

\* The installments still to come: date >= CURRENT_DATE, of one card when its id is
\* given (0 stands for an id that was not given).
Remaining(tables, creditCardAccountId) ==
    {i \in 1..Len(tables.purchases) :
        /\ creditCardAccountId # 0
              => tables.purchases[i].creditCardAccountId = creditCardAccountId
        /\ DayNumber(tables.purchases[i].date) >= DayNumber(Today)}

countRemainingInstallments(tables, creditCardAccountId) ==
    Select(tables, <<[count |-> Cardinality(Remaining(tables, creditCardAccountId))]>>)

\* The amount stored for an installment: totalAmount / totalInstallments.
InstallmentAmount(p) == p.amount.total \div p.amount.dividedBy

getTotalDebt(tables, creditCardAccountId) ==
    LET Of(a, cur) == {i \in Remaining(tables, creditCardAccountId) :
                          /\ tables.purchases[i].creditCardAccountId = a.id
                          /\ tables.purchases[i].currency = cur}
        Debt(a, cur) == [i \in 1..Len(tables.purchases) |->
                            IF i \in Of(a, cur) THEN InstallmentAmount(tables.purchases[i])
                            ELSE 0]
        groups == {g \in tables.accounts \X CurrencyEnum : Of(g[1], g[2]) # {}}
        row(g) == [credit_card_name |-> g[1].name, total_debt |-> Sum(Debt(g[1], g[2])),
                   currency |-> g[2]]
        RECURSIVE InSomeOrder(_)
        InSomeOrder(gs) == IF gs = {} THEN <<>>
                           ELSE LET g == CHOOSE x \in gs : TRUE
                                IN  <<row(g)>> \o InSomeOrder(gs \ {g})
    IN  Select(tables, InSomeOrder(groups))

\* AnalyticsService.executeQuery on the stored tables.
executeQueryOn(tables, query) ==
    LET range == getDateRange(query.time_period)
        options == [startDate |-> range.startDate, endDate |-> range.endDate,
                    sort |-> IF "sort_order" \in DOMAIN query THEN query.sort_order
                             ELSE "desc",
                    limit |-> IF "limit" \in DOMAIN query THEN query.limit ELSE 10,
                    includeArchived |-> query.include_archived]
        card == IF "credit_card_account_id" \in DOMAIN query
                THEN query.credit_card_account_id ELSE 0
        qt == QueryTypeOf(query)
    IN  CASE qt = "rank_accounts_by_expense" -> getAccountsRankedByExpenses(tables, options)
          [] qt = "total_spending_by_category" ->
                getExpensesSummary(tables, range.startDate, range.endDate)
          [] qt = "count_archived_transactions" -> countArchived(tables)
          [] qt = "count_remaining_installments" -> countRemainingInstallments(tables, card)
          [] qt = "total_credit_card_debt" -> getTotalDebt(tables, card)
          [] qt = "rank_accounts_by_transaction_count" ->
                getAccountsRankedByTransactionCount(tables, options)

(***************************************************************************)
(* An analytics request handled over a ledger that holds rows: an expense  *)
(* of today, an archived expense of last January, an income, and a         *)
(* purchase in two installments of which the second is still to come.      *)
(***************************************************************************)
StoredTransaction(id, type, date, from, to, amount, categoryId, archived) ==
    [id |-> id, type |-> type, date |-> date, description |-> "coffee",
     fromAccountId |-> from, toAccountId |-> to, amount |-> amount, currency |-> "USD",
     categoryId |-> categoryId, is_archived |-> archived]

LedgerTransactions ==
    << StoredTransaction(1, "expense", Today, 1, 0, 5, 1, FALSE),
       StoredTransaction(2, "expense", NewDate(EndOfJanuary), 1, 0, 7, 1, TRUE),
       StoredTransaction(3, "income", Today, 0, 1, 9, 0, FALSE) >>

LedgerPurchases ==
    recordCreditCardPurchase(
        [creditCardAccountId |-> BBVACard.id, date |-> setMonth(Today, Today.month - 1),
         description |-> "laptop", totalAmount |-> 100, currency |-> "USD",
         categoryId |-> 0, totalInstallments |-> 2],
        {MainChecking, BBVACard}, 1, 0).purchaseRows

Ledgers ==
    { Tables({MainChecking, BBVACard}, Categories, t, p) :
        t \in {<<>>, LedgerTransactions}, p \in {<<>>, LedgerPurchases} }

CurrentTables == Tables(accounts, categories, transactions, purchases)

\* processNaturalLanguageQuery, step 3, on the stored tables; the database may
\* fail the statement.
ExecuteQueryOnLedger ==
    /\ apc = "executeQuery"
    /\ \E dbFails \in BOOLEAN :
          LET r == executeQueryOn(CurrentTables, generatedQuery)
          IN  IF dbFails
              THEN /\ results' = "none"
                   /\ error' = DatabaseErrorMessage
                   /\ apc' = "catch"
                   /\ UNCHANGED <<accounts, categories, transactions, purchases, last>>
              ELSE /\ results' = IF r.rows = <<>> THEN "empty" ELSE "rows"
                   /\ error' = ""
                   /\ apc' = "formatResponse"
                   /\ accounts' = r.tables.accounts
                   /\ categories' = r.tables.categories
                   /\ transactions' = r.tables.transactions
                   /\ purchases' = r.tables.purchases
                   /\ last' = [kind |-> "executeQuery", query |-> generatedQuery,
                               rows |-> r.rows]
    /\ trace' = trace \o <<RepoCall(Aggregation(QueryTypeOf(generatedQuery)))>>
    /\ UNCHANGED <<genCompletion, generatedQuery, verdict, response, reply, harnessVars,
                   intentVars, promptVars, botVars, textVars, uuids, pending, keyboards, updates>>

\* A request has just been received (handleCustomReportQuery entered).
InitLedger ==
    /\ HarnessIdle
    /\ IntentIdle
    /\ TextIdle
    /\ BotIdle
    /\ PromptIdle
    /\ apc = "generateQuery"
    /\ genCompletion = NoCompletion
    /\ generatedQuery = NoQuery
    /\ verdict = NoVerdict
    /\ results = "none"
    /\ response = ""
    /\ error = ""
    /\ trace = <<>>
    /\ reply = NoReply
    /\ \E ledger \in Ledgers :
          /\ accounts = ledger.accounts
          /\ categories = ledger.categories
          /\ transactions = ledger.transactions
          /\ purchases = ledger.purchases
    /\ uuids = 1
    /\ pending = NoPending
    /\ keyboards = <<>>
    /\ updates = 0
    /\ last = NoUpdate

NextLedger ==
    \/ GenerateQuery
    \/ ValidateQuery
    \/ ExecuteQueryOnLedger
    \/ FormatResponse
    \/ ReplyResult
    \/ ReplyError

SpecLedger == InitLedger /\ [][NextLedger]_vars

(***************************************************************************)
(* The calls made on the PromptManager.                                    *)
(***************************************************************************)
\* What a finished call of the PromptManager did.
Event(op, c, endedAt, hit, fetched, answer, threw, prompt, config, after) ==
    [op |-> op, name |-> c.name, fallbackConfig |-> c.fallbackConfig,
     version |-> c.version, startedAt |-> c.startedAt, endedAt |-> endedAt,
     hit |-> hit, fetched |-> fetched, answer |-> answer, threw |-> threw,
     error |-> IF threw THEN PromptNotFoundMessage ELSE "",
     prompt |-> prompt, config |-> config, before |-> c.before, after |-> after]

Gets(log) == {i \in 1..Len(log) : log[i].op = "getPromptWithConfig"}
Clears(log) == {i \in 1..Len(log) : log[i].op \in {"clearCache", "clearPromptCache"}}

\* getPromptWithConfig up to its return, its throw, or its await of the store,
\* called with one of the given arguments.
CallGetPromptWithConfig(names, fallbackConfigs, versions) ==
    /\ pcall.pc = "idle"
    /\ Cardinality(Gets(plog)) < MaxCalls
    /\ \E name \in names, fallbackConfig \in fallbackConfigs, version \in versions :
          LET cached == CacheGet(promptCache, name)
              c == [pc |-> "fetching", name |-> name, fallbackConfig |-> fallbackConfig,
                    version |-> version, startedAt |-> now, before |-> promptCache]
          IN  IF Fresh(cached, now)
              THEN /\ plog' = Append(plog, Event("getPromptWithConfig", c, now, TRUE, FALSE,
                                                 NullAnswer, FALSE, cached.prompt,
                                                 cached.config, promptCache))
                   /\ UNCHANGED pcall
              ELSE IF enabled
              THEN /\ pcall' = c
                   /\ UNCHANGED plog
              ELSE /\ plog' = Append(plog, Event("getPromptWithConfig", c, now, FALSE, FALSE,
                                                 NullAnswer, TRUE, NoText, NoConfig,
                                                 promptCache))
                   /\ UNCHANGED pcall
    /\ UNCHANGED <<promptCache, now, enabled, otherThanPrompt>>

\* The store answers; getPromptWithConfig caches and returns, or throws.
FetchReturns ==
    /\ pcall.pc = "fetching"
    /\ \E answer \in langfuseGetPrompt(enabled, pcall.name, pcall.version) :
          LET r == afterFetch(promptCache, pcall.name, pcall.fallbackConfig, answer, now)
          IN  /\ promptCache' = r.cache
              /\ plog' = Append(plog, Event("getPromptWithConfig", pcall, now, FALSE, TRUE,
                                            answer, r.threw, r.prompt, r.config, r.cache))
    /\ pcall' = IdleCall
    /\ UNCHANGED <<now, enabled, otherThanPrompt>>

\* Time passes.
Tick ==
    /\ now < MaxClock * TickLength
    /\ now' = now + TickLength
    /\ UNCHANGED <<promptCache, enabled, pcall, plog, otherThanPrompt>>

\* As the callers of the message handlers call it: the latest version.
GetPromptWithConfig == CallGetPromptWithConfig(PromptNames, {CallerConfig}, {0})

ClearedCall(name) == [IdleCall EXCEPT !.name = name, !.startedAt = now, !.before = promptCache]

\* clearCache()
ClearCache ==
    /\ pcall.pc = "idle"
    /\ Cardinality(Clears(plog)) < MaxClears
    /\ promptCache' = EmptyCache
    /\ plog' = Append(plog, Event("clearCache", ClearedCall(""), now, FALSE, FALSE,
                                  NullAnswer, FALSE, NoText, NoConfig, EmptyCache))
    /\ UNCHANGED <<now, enabled, pcall, otherThanPrompt>>

\* clearPromptCache(name)
ClearPromptCache ==
    /\ pcall.pc = "idle"
    /\ Cardinality(Clears(plog)) < MaxClears
    /\ \E name \in PromptNames :
          LET after == [n \in DOMAIN promptCache \ {name} |-> promptCache[n]]
          IN  /\ promptCache' = after
              /\ plog' = Append(plog, Event("clearPromptCache", ClearedCall(name), now, FALSE,
                                            FALSE, NullAnswer, FALSE, NoText, NoConfig,
                                            after))
    /\ UNCHANGED <<now, enabled, pcall, otherThanPrompt>>

InitPrompt ==
    /\ HarnessIdle
    /\ AnalyticsIdle
    /\ IntentIdle
    /\ TextIdle
    /\ BotIdle
    /\ ExpenseIdle
    /\ promptCache = EmptyCache
    /\ now = 0
    /\ enabled \in BOOLEAN
    /\ pcall = IdleCall
    /\ plog = <<>>

NextPrompt ==
    \/ GetPromptWithConfig
    \/ FetchReturns
    \/ Tick
    \/ ClearCache
    \/ ClearPromptCache

SpecPrompt == InitPrompt /\ [][NextPrompt]_vars

(***************************************************************************)
(* PromptManager.compilePrompt.  A text is a sequence of tokens: a run of  *)
(* plain characters, a placeholder {{key}} (with or without whitespace     *)
(* inside the braces), or one of the two-character sequences that          *)
(* String.prototype.replace reads as a pattern in its replacement string.  *)
(***************************************************************************)
Token(t, key, spaced) == [t |-> t, key |-> key, spaced |-> spaced]
Plain(chars) == Token("plain", chars, FALSE)
Placeholder(key, spaced) == Token("placeholder", key, spaced)
DollarDollar == Token("$$", "", FALSE)
DollarAmpersand == Token("$&", "", FALSE)

\* new RegExp('\{\{\s*' + key + '\s*\}\}', 'g') matching at one token.
Matches(key, token) == token.t = "placeholder" /\ token.key = key

\* The replacement string as replace() reads it: $$ inserts a "$", $& inserts the
\* matched substring.
RECURSIVE Replacement(_, _)
Replacement(value, matched) ==
    IF value = <<>> THEN <<>>
    ELSE (CASE Head(value).t = "$$" -> <<Plain("$")>>
            [] Head(value).t = "$&" -> <<matched>>
            [] OTHER -> <<Head(value)>>)
         \o Replacement(Tail(value), matched)

\* compiled.replace(regex, value): every match, left to right; what was inserted
\* is not searched again by the same call.
RECURSIVE replace(_, _, _)
replace(compiled, key, value) ==
    IF compiled = <<>> THEN <<>>
    ELSE (IF Matches(key, Head(compiled)) THEN Replacement(value, Head(compiled))
          ELSE <<Head(compiled)>>)
         \o replace(Tail(compiled), key, value)

\* compilePrompt: one replace per entry of variables, in the order of
\* Object.entries, each on what the replaces before it produced.
RECURSIVE compilePrompt(_, _)
compilePrompt(template, variables) ==
    IF variables = <<>> THEN template
    ELSE compilePrompt(replace(template, Head(variables).key, Head(variables).value),
                       Tail(variables))

(***************************************************************************)
(* compilePrompt called directly.                                          *)
(***************************************************************************)
TemplateTokens ==
    {Plain("Is it safe?"), Placeholder("user_request", FALSE),
     Placeholder("user_request", TRUE), Placeholder("generated_query", FALSE)}

Values ==
    {<<>>, <<Plain("coffee")>>, <<Plain("paid"), DollarDollar>>, <<DollarAmpersand>>,
     <<Placeholder("generated_query", FALSE)>>}

VariableKeys == {"user_request", "generated_query", "caption"}

SeqsUpTo(S, n) == UNION {[1..k -> S] : k \in 0..n}

\* Record<string, string>: the entries in insertion order, no key twice.
VariableRecords ==
    {v \in SeqsUpTo([key : VariableKeys, value : Values], MaxVariables) :
        \A i, j \in 1..Len(v) : v[i].key = v[j].key => i = j}

CompileCalls ==
    {[fn |-> "compilePrompt", template |-> t, variables |-> v] :
        t \in SeqsUpTo(TemplateTokens, MaxTemplate), v \in VariableRecords}

InitCompile ==
    /\ call \in CompileCalls
    /\ ret = NoReturn
    /\ AnalyticsIdle
    /\ IntentIdle
    /\ TextIdle
    /\ BotIdle
    /\ PromptIdle
    /\ ExpenseIdle

CallCompilePrompt ==
    /\ call.fn = "compilePrompt"
    /\ ret = NoReturn
    /\ ret' = [returned |-> TRUE, result |-> compilePrompt(call.template, call.variables)]
    /\ UNCHANGED <<call, otherThanHarness>>

NextCompile == CallCompilePrompt

SpecCompile == InitCompile /\ [][NextCompile]_vars

(***************************************************************************)
(* Updates arriving at the bot: the authorization middleware, and behind   *)
(* it the handlers, each summarised by the kind of effect it has (the      *)
(* handlers themselves are the actions of SpecExpense and SpecAnalytics).  *)
(***************************************************************************)
Alice == 7
Mallory == 8
Senders == {Sender(Alice), Sender(Mallory), NoSender}

UpdateTypes == {"text", "media", "command", "callback"}

\* USER_ID: not set, empty, a user id, a user name.
UserIdSettings ==
    {Unset, EnvText(<<>>), EnvText(<<"7">>), EnvText(<<"@", "a", "l", "i", "c", "e">>)}

GifUrl == <<"h", "t", "t", "p", "s", ":", "/", "/", "g", "i", "f">>

HandlerEffects == {"reply", "llm", "persist", "session"}

Footprint == [trace |-> trace, transactions |-> transactions, purchases |-> purchases,
              pending |-> pending]

\* An update passes the authorization middleware or is stopped by it.
\* replyWithAnimation(undefined) is rejected by the Bot API: the error goes to
\* bot.catch and nothing is sent.
ReceiveUpdate ==
    /\ updates < MaxUpdates
    /\ last.kind # "admitted"
    /\ \E from \in Senders, type \in UpdateTypes :
          IF Unauthorized(authorizedUserId, from)
          THEN /\ last' = [kind |-> "stopped", from |-> from, type |-> type,
                           effect |-> "none", before |-> Footprint]
               /\ reply' = IF env.YOU_SHALL_NOT_PASS.set
                           THEN [sent |-> TRUE, kind |-> "animation", text |-> ""]
                           ELSE NoReply
          ELSE /\ last' = [kind |-> "admitted", from |-> from, type |-> type,
                           effect |-> "none", before |-> Footprint]
               /\ reply' = NoReply
    /\ updates' = updates + 1
    /\ UNCHANGED <<apc, genCompletion, generatedQuery, verdict, results, response, error,
                   trace, accounts, categories, transactions, purchases, uuids, pending,
                   keyboards, harnessVars, intentVars, promptVars, botVars, textVars>>

\* next(): the handler of the admitted update runs.
RunHandler ==
    /\ last.kind = "admitted"
    /\ \E effect \in HandlerEffects :
          /\ last' = [last EXCEPT !.kind = "handled", !.effect = effect]
          /\ trace' = IF effect = "llm" THEN Append(trace, ChatCall("handler")) ELSE trace
          /\ transactions' = IF effect = "persist"
                             THEN Append(transactions, [type |-> "expense"])
                             ELSE transactions
          /\ pending' = IF effect = "session" THEN [type |-> "expense"] ELSE pending
    /\ reply' = [sent |-> TRUE, kind |-> "result", text |-> ""]
    /\ UNCHANGED <<apc, genCompletion, generatedQuery, verdict, results, response, error,
                   accounts, categories, purchases, uuids, keyboards, updates,
                   harnessVars, intentVars, promptVars, botVars, textVars>>

\* new TelegramBot(token) with each setting of the environment.
InitAuth ==
    /\ HarnessIdle
    /\ AnalyticsIdle
    /\ IntentIdle
    /\ TextIdle
    /\ PromptIdle
    /\ ExpenseIdle
    /\ \E userId \in UserIdSettings, gif \in {Unset, EnvText(GifUrl)} :
          /\ env = [USER_ID |-> userId, YOU_SHALL_NOT_PASS |-> gif]
          /\ authorizedUserId = AuthorizedUserIdOf(userId)

NextAuth ==
    \/ ReceiveUpdate
    \/ RunHandler

SpecAuth == InitAuth /\ [][NextAuth]_vars

(***************************************************************************)
(* The three places where the bot turns a completion into an object and    *)
(* then acts on it: Orchestrator.analyzeIntent (the text handler routes on *)
(* its decision), handleExpenseMessage, handleCustomReportQuery.  A        *)
(* behaviour follows one of them.                                          *)
(***************************************************************************)
Pipelines == {"analyzeIntent", "handleExpenseMessage", "handleCustomReportQuery"}

PipelineCall(fn) == [fn |-> fn]

InitPipelines ==
    /\ call \in {PipelineCall(fn) : fn \in Pipelines}
    /\ ret = NoReturn
    /\ AnalyticsIdle
    /\ IntentIdle
    /\ TextIdle
    /\ BotIdle
    /\ PromptIdle
    /\ accounts \in IF call.fn = "handleExpenseMessage" THEN AccountTables ELSE {{}}
    /\ categories = IF call.fn = "handleExpenseMessage" THEN Categories ELSE {}
    /\ transactions = <<>>
    /\ purchases = <<>>
    /\ uuids = 0
    /\ pending = NoPending
    /\ keyboards = <<>>
    /\ updates = 0
    /\ last = NoUpdate

NextPipelines ==
    \/ call.fn = "analyzeIntent" /\ NextIntent
    \/ call.fn = "handleCustomReportQuery" /\ NextAnalytics
    \/ call.fn = "handleExpenseMessage" /\ NextExpense

SpecPipelines == InitPipelines /\ [][NextPipelines]_vars

(***************************************************************************)
(* getPromptWithConfig as its signature allows it to be called: with or    *)
(* without a fallback config (getPrompt passes undefined), with or without *)
(* a version, for one prompt name, the store enabled.                      *)
(***************************************************************************)
ResolvedName == "query-generator"

GetPromptWithAnyArguments == CallGetPromptWithConfig({ResolvedName}, FallbackConfigs, Versions)

InitResolve ==
    /\ InitPrompt
    /\ enabled

NextResolve ==
    \/ GetPromptWithAnyArguments
    \/ FetchReturns
    \/ Tick

SpecResolve == InitResolve /\ [][NextResolve]_vars

(***************************************************************************)
(* Two messages resolving the same prompt name at once.  A handler runs    *)
(* until its next await, so the calls interleave at the await of the       *)
(* store: one call's cache lookup and another call's cache write can fall  *)
(* between a call's lookup and its own write.                              *)
(***************************************************************************)
Messages == {1, 2}

\* getPromptWithConfig of message m, up to its return, throw or await.
ConcurrentGetPromptWithConfig(m) ==
    /\ pcall[m].pc = "idle"
    /\ Cardinality(Gets(plog)) + Cardinality({k \in Messages : pcall[k].pc = "fetching"}) < MaxCalls
    /\ LET cached == CacheGet(promptCache, ResolvedName)
           c == [pc |-> "fetching", name |-> ResolvedName, fallbackConfig |-> CallerConfig,
                 version |-> 0, startedAt |-> now, before |-> promptCache]
       IN  IF Fresh(cached, now)
           THEN /\ plog' = Append(plog, Event("getPromptWithConfig", c, now, TRUE, FALSE,
                                              NullAnswer, FALSE, cached.prompt,
                                              cached.config, promptCache))
                /\ UNCHANGED pcall
           ELSE IF enabled
           THEN /\ pcall' = [pcall EXCEPT ![m] = c]
                /\ UNCHANGED plog
           ELSE /\ plog' = Append(plog, Event("getPromptWithConfig", c, now, FALSE, FALSE,
                                              NullAnswer, TRUE, NoText, NoConfig,
                                              promptCache))
                /\ UNCHANGED pcall
    /\ UNCHANGED <<promptCache, now, enabled, otherThanPrompt>>

\* The store answers message m; its call caches and returns, or throws.
ConcurrentFetchReturns(m) ==
    /\ pcall[m].pc = "fetching"
    /\ \E answer \in langfuseGetPrompt(enabled, pcall[m].name, pcall[m].version) :
          LET r == afterFetch(promptCache, pcall[m].name, pcall[m].fallbackConfig, answer, now)
          IN  /\ promptCache' = r.cache
              /\ plog' = Append(plog, Event("getPromptWithConfig", pcall[m], now, FALSE, TRUE,
                                            answer, r.threw, r.prompt, r.config, r.cache))
    /\ pcall' = [pcall EXCEPT ![m] = IdleCall]
    /\ UNCHANGED <<now, enabled, otherThanPrompt>>

InitConcurrent ==
    /\ HarnessIdle
    /\ AnalyticsIdle
    /\ IntentIdle
    /\ TextIdle
    /\ BotIdle
    /\ ExpenseIdle
    /\ promptCache = EmptyCache
    /\ now = 0
    /\ enabled \in BOOLEAN
    /\ pcall = [m \in Messages |-> IdleCall]
    /\ plog = <<>>

NextConcurrent ==
    \/ \E m \in Messages : ConcurrentGetPromptWithConfig(m)
    \/ \E m \in Messages : ConcurrentFetchReturns(m)
    \/ Tick

SpecConcurrent == InitConcurrent /\ [][NextConcurrent]_vars

(***************************************************************************)
(* Account keyboards whose taps may be delivered more than once: a tap     *)
(* made before the bot edited the message away is still delivered.  The    *)
(* updates are handled one at a time (bot.start()).                        *)
(***************************************************************************)
ExpensesWithoutAccount ==
    { TransactionObject("expense", desc, 50, <<>>, <<>>, <<"Food">>, <<>>) :
        desc \in {"coffee", "rent"} }

\* An expense without account is parsed: the keyboard is presented.
ReceiveExpenseWithoutAccount ==
    /\ updates < MaxDeliveries
    /\ \E obj \in ExpensesWithoutAccount :
          LET out == handleExpenseMessage([ok |-> TRUE], ChatReturned(<<JsonObject(obj)>>),
                                          accounts, uuidv4(uuids), 0)
          IN  Apply(out, out.parsed,
                    Append(keyboards, [presented |-> out.parsed,
                                       buttons |-> {a.id : a \in accounts},
                                       showing |-> TRUE, completed |-> FALSE]))

\* A complete_expense_account callback of a keyboard is delivered, the first
\* time or once more.
DeliverCompleteExpenseAccount ==
    /\ updates < MaxDeliveries
    /\ \E k \in 1..Len(keyboards), failAt \in 0..1 :
       \E accountId \in keyboards[k].buttons :
          LET done == completeExpenseAccount(pending, accountId, accounts, failAt)
          IN  Apply([done.out EXCEPT !.kind = "callback"] @@
                        [keyboard |-> k, accountId |-> accountId,
                         again |-> keyboards[k].completed],
                    done.session,
                    [keyboards EXCEPT ![k].showing = FALSE,
                                      ![k].completed = @ \/ done.out.reply = "success"])

InitTaps ==
    /\ InitExpense
    /\ accounts = {MainChecking, BBVACard}

NextTaps ==
    \/ ReceiveExpenseWithoutAccount
    \/ DeliverCompleteExpenseAccount

SpecTaps == InitTaps /\ [][NextTaps]_vars

(***************************************************************************)
(* The handler of a text message, bot.on('message:text'), and the handlers *)
(* it routes to, as control flow: every await either returns or throws,    *)
(* every ctx.reply is recorded.  One message per behaviour.                *)
(***************************************************************************)
otherThanText == <<harnessVars, analyticsVars, intentVars, expenseVars, promptVars, botVars>>

\* What analyzeIntent may return: a validated decision or the fallback.
Decisions ==
    {FallbackDecision} \cup {[intent |-> it, confidence |-> co] : it \in IntentEnum, co \in {0, 95}}

\* switch (decision.intent)
HandlerOf(intent) ==
    CASE intent \in {"track_expense", "track_income"} -> "expense.typing"
      [] intent = "query_balance" -> "balance.typing"
      [] intent = "query_transactions" -> "recent.typing"
      [] intent = "query_report" -> "report.typing"
      [] intent = "archive_transaction" -> "archive.typing"
      [] OTHER -> "chat.getPrompt"

\* Mutation: the text handler has no catch block of its own.
OnThrowIn_Uncaught(scope) == IF scope = "text" THEN "done" ELSE scope \o ".catch"

\* The catch block a throw inside a handler's try block arrives in.
OnThrowIn(scope) == scope \o ".catch"

\* An await inside the try block of a handler: it returns or it throws.
Await(from, scope, next) ==
    /\ tpc = from
    /\ \E ok \in BOOLEAN : tpc' = IF ok THEN next ELSE OnThrowIn(scope)
    /\ UNCHANGED <<replies, otherThanText>>

\* await ctx.reply(...), after which the handler returns.
Reply(from, kind) ==
    /\ tpc = from
    /\ replies' = Append(replies, kind)
    /\ tpc' = "done"
    /\ UNCHANGED otherThanText

ReceiveText ==
    /\ tpc = "idle"
    /\ tpc' = "text.typing"
    /\ UNCHANGED <<replies, otherThanText>>

\* await ctx.replyWithChatAction('typing')
TextTyping == Await("text.typing", "text", "text.analyzeIntent")

\* const decision = await this.orchestrator.analyzeIntent(userMessage)
TextAnalyzeIntent ==
    /\ tpc = "text.analyzeIntent"
    /\ decision' \in Decisions
    /\ tpc' = "text.route"
    /\ UNCHANGED <<replies, ipc, intentFailure, intentResponse, intentParsed, harnessVars,
                   analyticsVars, expenseVars, promptVars, botVars>>

TextRoute ==
    /\ tpc = "text.route"
    /\ tpc' = HandlerOf(decision.intent)
    /\ UNCHANGED <<replies, otherThanText>>

\* default: processWithPrompt(userMessage, 'chat-assistant'), then the reply.
ChatGetPrompt == Await("chat.getPrompt", "text", "chat.chat")
ChatChat == Await("chat.chat", "text", "chat.reply")
ChatReply == Reply("chat.reply", "chat")

\* catch (error): 'Sorry, I encountered an error processing your message.'
TextCatch == Reply("text.catch", "sorry")

\* handleBalanceQuery
BalanceTyping == Await("balance.typing", "balance", "balance.getAllAccountBalances")
BalanceGetAllAccountBalances == Await("balance.getAllAccountBalances", "balance", "balance.reply")
BalanceReply == Reply("balance.reply", "balances")
BalanceCatch == Reply("balance.catch", "error")

\* handleRecentTransactions
RecentTyping == Await("recent.typing", "recent", "recent.getRecentTransactions")
RecentGetRecentTransactions == Await("recent.getRecentTransactions", "recent", "recent.reply")
RecentReply ==
    \E kind \in {"no_recent_transactions", "transactions"} : Reply("recent.reply", kind)
RecentCatch == Reply("recent.catch", "error")

\* handleCustomReportQuery and processNaturalLanguageQuery
ReportTyping == Await("report.typing", "report", "report.generateQuery")
ReportGenerateQuery == Await("report.generateQuery", "report", "report.validateQuery")
\* validateQuery throws, or returns false (the unsafe-query error is thrown), or true
ReportValidateQuery ==
    /\ tpc = "report.validateQuery"
    /\ \E answer \in {"throws", "unsafe", "safe"} :
          tpc' = IF answer = "safe" THEN "report.executeQuery" ELSE OnThrowIn("report")
    /\ UNCHANGED <<replies, otherThanText>>
ReportExecuteQuery == Await("report.executeQuery", "report", "report.reply")
ReportReply == Reply("report.reply", "result")
ReportCatch == Reply("report.catch", "error")

\* handleArchiveMessage: how many transactions match decides the reply.
ArchiveTyping == Await("archive.typing", "archive", "archive.findTransactionsByDescription")
ArchiveFindTransactionsByDescription ==
    Await("archive.findTransactionsByDescription", "archive", "archive.reply")
ArchiveReply ==
    \E kind \in {"no_match", "confirm", "select"} : Reply("archive.reply", kind)
ArchiveCatch == Reply("archive.catch", "error")

\* handleExpenseMessage: the typing action, then the handler from the prompt
\* fetch to its reply.
ExpenseTyping == Await("expense.typing", "expense", "expense.getPromptWithConfig")
ExpenseRun ==
    /\ tpc = "expense.getPromptWithConfig"
    /\ \E promptOutcome \in PromptOutcomes :
       \E completion \in IF promptOutcome.ok THEN ParserCompletions ELSE {ChatFailed},
          failAt \in IF promptOutcome.ok THEN 0..MaxInstallments ELSE {0} :
          LET out == handleExpenseMessage(promptOutcome, completion, accounts,
                                          uuidv4(uuids), failAt)
          IN  /\ failAt > 0 => out.inserts = failAt
              /\ transactions' = transactions \o out.txRows
              /\ purchases' = purchases \o out.purchaseRows
              /\ pending' = IF out.reply = "which_account" THEN out.parsed ELSE pending
              /\ last' = out
              /\ replies' = Append(replies, out.reply)
    /\ tpc' = "done"
    /\ updates' = updates + 1
    /\ UNCHANGED <<accounts, categories, uuids, keyboards, harnessVars, analyticsVars,
                   intentVars, promptVars, botVars>>
ExpenseCatch == Reply("expense.catch", "error")

InitText == InitExpense

NextText ==
    \/ ReceiveText
    \/ TextTyping
    \/ TextAnalyzeIntent
    \/ TextRoute
    \/ ChatGetPrompt
    \/ ChatChat
    \/ ChatReply
    \/ TextCatch
    \/ BalanceTyping
    \/ BalanceGetAllAccountBalances
    \/ BalanceReply
    \/ BalanceCatch
    \/ RecentTyping
    \/ RecentGetRecentTransactions
    \/ RecentReply
    \/ RecentCatch
    \/ ReportTyping
    \/ ReportGenerateQuery
    \/ ReportValidateQuery
    \/ ReportExecuteQuery
    \/ ReportReply
    \/ ReportCatch
    \/ ArchiveTyping
    \/ ArchiveFindTransactionsByDescription
    \/ ArchiveReply
    \/ ArchiveCatch
    \/ ExpenseTyping
    \/ ExpenseRun
    \/ ExpenseCatch

SpecText == InitText /\ [][NextText]_vars

\* Every await returns or throws, so a handler that can take a step takes it.
SpecTextLive == SpecText /\ WF_vars(NextText)

(***************************************************************************)
(* One model output handled twice: once with the prompt and schema the     *)
(* code ships as fallback, once with what the prompt store returned.       *)
(***************************************************************************)
CodeSchema == "JSON schema of the code"
PermissiveSchema == "JSON schema of the store, any value allowed"

\* What getPromptWithConfig may return for a prompt the store has.
StorePrompts ==
    [prompt : {"prompt text A", "prompt text B"},
     schema : {NoConfig, CodeSchema, PermissiveSchema}]

ShippedPrompt == [prompt |-> "prompt text A", schema |-> NoConfig]

\* promptData.config?.schema || getXJSONSchema(): the schema sent to the model.
RequestSchema(promptData) ==
    IF promptData.schema # NoConfig THEN promptData.schema ELSE CodeSchema

\* The validator each pipeline passes to zod.
ValidatorOf(pipeline) ==
    CASE pipeline = "analyzeIntent" -> OrchestratorDecisionSchema
      [] pipeline = "handleExpenseMessage" -> ExpenseParserSchema
      [] pipeline = "generateQuery" -> QueryGeneratorSchema

\* Mutation: an output the store's schema allows is accepted as it is.
Accepted_ByRequestSchema(pipeline, promptData, completion) ==
    LET parsed == JSONParse(stripMarkdownCodeFences(chatJson(completion).content))
    IN  IF /\ RequestSchema(promptData) = PermissiveSchema
           /\ completion.ok /\ parsed.ok /\ parsed.kind = "object"
        THEN [ok |-> TRUE, value |-> parsed.value]
        ELSE extractStructured(completion, ValidatorOf(pipeline))

\* The request carries the store's prompt and schema; the completion is
\* parsed and validated with the pipeline's validator.
Accepted(pipeline, promptData, completion) ==
    extractStructured(completion, ValidatorOf(pipeline))

SchemaRuns ==
    {[fn |-> "generateQuery", promptData |-> pd, completion |-> c] :
        pd \in StorePrompts, c \in Completions(QueryObjects)}
      \cup
    {[fn |-> "analyzeIntent", promptData |-> pd, completion |-> c] :
        pd \in StorePrompts, c \in Completions(IntentObjects)}
      \cup
    {[fn |-> "handleExpenseMessage", promptData |-> pd, completion |-> c] :
        pd \in StorePrompts, c \in ParserCompletions}

InitSchemas ==
    /\ call \in SchemaRuns
    /\ ret = NoReturn
    /\ AnalyticsIdle
    /\ IntentIdle
    /\ TextIdle
    /\ BotIdle
    /\ PromptIdle
    /\ ExpenseIdle

\* The two runs on the same model output.
RunWithBothPrompts ==
    /\ ret = NoReturn
    /\ ret' = [returned |-> TRUE,
               shipped |-> Accepted(call.fn, ShippedPrompt, call.completion),
               stored |-> Accepted(call.fn, call.promptData, call.completion)]
    /\ UNCHANGED <<call, otherThanHarness>>

NextSchemas == RunWithBothPrompts

SpecSchemas == InitSchemas /\ [][NextSchemas]_vars

(***************************************************************************)
(* Archiving.  handleArchiveMessage looks the description up among the     *)
(* transactions that are not archived and offers buttons; the rows are     *)
(* written by the archive_confirm and archive_select callbacks only, which *)
(* both run archiveById.  createTransaction is the one other statement     *)
(* that writes the table.                                                  *)
(***************************************************************************)
SearchedDescriptions == {"coffee", "COF", "rent"}

\* description ILIKE '%searched%', over the descriptions of the ledger.
ILike(description, searched) ==
    \/ description = searched
    \/ description = "coffee" /\ searched = "COF"

\* The ORDER BY and the LIMIT 10 are left out: the ledger has fewer rows and
\* the buttons are kept as a set.
findTransactionsByDescription(rows, searched) ==
    SelectSeq(rows, LAMBDA t : ILike(t.description, searched) /\ t.is_archived = FALSE)

archiveById_Toggling(rows, id) ==
    [i \in DOMAIN rows |->
        IF rows[i].id = id THEN [rows[i] EXCEPT !.is_archived = ~@] ELSE rows[i]]

\* UPDATE transactions SET is_archived = TRUE WHERE id = $1
archiveById(rows, id) ==
    [i \in DOMAIN rows |->
        IF rows[i].id = id THEN [rows[i] EXCEPT !.is_archived = TRUE] ELSE rows[i]]

archiveTransaction(rows, id) == archiveById(rows, id)

\* The reply of handleArchiveMessage to the rows found.
ArchiveOffer(matching) ==
    IF Len(matching) = 0 THEN [reply |-> "no_match", data |-> "none", ids |-> {}]
    ELSE IF Len(matching) = 1
         THEN [reply |-> "confirm", data |-> "archive_confirm", ids |-> {matching[1].id}]
         ELSE [reply |-> "select", data |-> "archive_select",
               ids |-> {matching[i].id : i \in DOMAIN matching}]

\* A text message with archive intent; the query may fail.
HandleArchiveMessage ==
    /\ updates < MaxDeliveries
    /\ \E searched \in SearchedDescriptions, failed \in BOOLEAN :
          LET offer == ArchiveOffer(findTransactionsByDescription(transactions, searched))
          IN  /\ last' = [kind |-> "archive_message", searched |-> searched,
                          reply |-> IF failed THEN "error" ELSE offer.reply]
              /\ keyboards' = IF failed \/ offer.ids = {} THEN keyboards
                              ELSE Append(keyboards, [data |-> offer.data, ids |-> offer.ids])
    /\ updates' = updates + 1
    /\ UNCHANGED <<accounts, categories, transactions, purchases, uuids, pending>>
    /\ UNCHANGED otherThanExpense

\* The callback of a button that carries a transaction id, delivered the
\* first time or once more; the statement may fail.
ArchiveCallback(data) ==
    /\ updates < MaxDeliveries
    /\ \E k \in 1..Len(keyboards), failed \in BOOLEAN :
          /\ keyboards[k].data = data
          /\ \E id \in keyboards[k].ids :
                /\ transactions' = IF failed THEN transactions
                                   ELSE archiveTransaction(transactions, id)
                /\ last' = [kind |-> data, id |-> id,
                            reply |-> IF failed THEN "error" ELSE "archived",
                            before |-> {transactions[i].id :
                                          i \in {j \in DOMAIN transactions :
                                                    transactions[j].is_archived}}]
    /\ updates' = updates + 1
    /\ UNCHANGED <<accounts, categories, purchases, uuids, pending, keyboards>>
    /\ UNCHANGED otherThanExpense

ArchiveConfirm == ArchiveCallback("archive_confirm")

ArchiveSelect == ArchiveCallback("archive_select")

\* The No button of the confirmation.
ArchiveCancel ==
    /\ updates < MaxDeliveries
    /\ \E k \in 1..Len(keyboards) : keyboards[k].data = "archive_confirm"
    /\ last' = [kind |-> "archive_cancel", reply |-> "cancelled"]
    /\ updates' = updates + 1
    /\ UNCHANGED <<accounts, categories, transactions, purchases, uuids, pending, keyboards>>
    /\ UNCHANGED otherThanExpense

\* INSERT INTO transactions ... RETURNING *: the statement names no
\* is_archived, which is the default of the column.
CreateTransaction ==
    /\ updates < MaxDeliveries
    /\ \E archived \in BOOLEAN :
          transactions' = Append(transactions,
                                 StoredTransaction(Len(transactions) + 1, "expense", Today,
                                                   MainChecking.id, 0, 5, 1, archived))
    /\ last' = [kind |-> "expense", reply |-> "success"]
    /\ updates' = updates + 1
    /\ UNCHANGED <<accounts, categories, purchases, uuids, pending, keyboards>>
    /\ UNCHANGED otherThanExpense

InitArchive ==
    /\ HarnessIdle
    /\ AnalyticsIdle
    /\ IntentIdle
    /\ TextIdle
    /\ BotIdle
    /\ PromptIdle
    /\ \E ledger \in Ledgers :
          /\ accounts = ledger.accounts
          /\ categories = ledger.categories
          /\ transactions = ledger.transactions
          /\ purchases = ledger.purchases
    /\ uuids = 0
    /\ pending = NoPending
    /\ keyboards = <<>>
    /\ updates = 0
    /\ last = NoUpdate

NextArchive ==
    \/ HandleArchiveMessage
    \/ ArchiveConfirm
    \/ ArchiveSelect
    \/ ArchiveCancel
    \/ CreateTransaction

SpecArchive == InitArchive /\ [][NextArchive]_vars

(***************************************************************************)
(* The balances, the listings and the totals, read from a ledger in which  *)
(* transactions are recorded and archived.  The accounts of the model      *)
(* carry no currency and every amount is in one column.                    *)
(***************************************************************************)
\* SUM(CASE WHEN to_account_id = $1 THEN to_amount ELSE 0 END)
\*   - SUM(CASE WHEN from_account_id = $1 THEN from_amount ELSE 0 END)
\* over the rows of the account with is_archived = FALSE.
BalanceOf(txs, accountId) ==
    LET kept == {i \in 1..Len(txs) :
                    /\ txs[i].toAccountId = accountId \/ txs[i].fromAccountId = accountId
                    /\ txs[i].is_archived = FALSE}
        To == [i \in 1..Len(txs) |->
                  IF i \in kept /\ txs[i].toAccountId = accountId THEN txs[i].amount ELSE 0]
        From == [i \in 1..Len(txs) |->
                    IF i \in kept /\ txs[i].fromAccountId = accountId THEN txs[i].amount ELSE 0]
    IN  Sum(To) - Sum(From)

getBalance(tables, accountId) ==
    Select(tables, <<[balance |-> BalanceOf(tables.transactions, accountId)]>>)

\* One row per account (LEFT JOIN ... GROUP BY a.id); the rows are kept as a
\* set, the ORDER BY a.name is left out.
getAllBalances(tables) ==
    Select(tables, {[account_id |-> a.id, account_name |-> a.name,
                     balance |-> BalanceOf(tables.transactions, a.id)] : a \in tables.accounts})

\* ORDER BY t.date DESC, t.created_at DESC: the rows numbered in "kept", the
\* latest first; of two rows of one day the one inserted later comes first.
RECURSIVE ByDateDesc(_, _)
ByDateDesc(txs, kept) ==
    IF kept = {} THEN <<>>
    ELSE LET first == CHOOSE i \in kept : \A j \in kept :
                          \/ DayNumber(txs[i].date) > DayNumber(txs[j].date)
                          \/ /\ DayNumber(txs[i].date) = DayNumber(txs[j].date)
                             /\ txs[i].id >= txs[j].id
         IN  <<txs[first]>> \o ByDateDesc(txs, kept \ {first})

findRecent(tables, limit) ==
    LET txs == tables.transactions
    IN  Select(tables,
               Limit(ByDateDesc(txs, {i \in 1..Len(txs) : txs[i].is_archived = FALSE}), limit))

findByDateRange(tables, startDate, endDate) ==
    LET txs == tables.transactions
        range == [startDate |-> startDate, endDate |-> endDate, includeArchived |-> FALSE]
    IN  Select(tables, ByDateDesc(txs, {i \in 1..Len(txs) : InRange(txs[i], range)}))

\* SUM(from_amount) ... GROUP BY from_currency: one row per currency that has
\* rows, in no stated order.
getTotalByType(tables, type, startDate, endDate) ==
    LET txs == tables.transactions
        range == [startDate |-> startDate, endDate |-> endDate, includeArchived |-> FALSE]
        Of(cur) == {i \in 1..Len(txs) :
                       txs[i].type = type /\ txs[i].currency = cur /\ InRange(txs[i], range)}
    IN  Select(tables, {[currency |-> cur, total |-> Sum(AmountsOf(txs, Of(cur)))] :
                           cur \in {c \in CurrencyEnum : Of(c) # {}}})

\* The reads made of the ledger: the repository calls of the balance, recent
\* and summary handlers and the aggregations of executeQuery, on validated
\* queries.
RepositoryQueries ==
    {[fn |-> "getBalance", accountId |-> a.id] : a \in {MainChecking, BBVACard}}
    \cup {[fn |-> "getAllBalances"]}
    \cup {[fn |-> "findRecent", limit |-> n] : n \in {1, 20}}
    \cup {[fn |-> "findByDateRange", time_period |-> tp] : tp \in {"today", "all_time"}}
    \cup {[fn |-> "getTotalByType", type |-> ty, time_period |-> tp] :
            ty \in {"expense", "income"}, tp \in {"today", "all_time"}}
    \cup {[fn |-> "executeQuery",
           query |-> [query_type |-> qt, time_period |-> tp, include_archived |-> ia]] :
            qt \in {"rank_accounts_by_expense", "rank_accounts_by_transaction_count",
                    "total_spending_by_category", "count_archived_transactions"},
            tp \in {"today", "all_time"}, ia \in BOOLEAN}

RunQuery(tables, q) ==
    CASE q.fn = "getBalance" -> getBalance(tables, q.accountId)
      [] q.fn = "getAllBalances" -> getAllBalances(tables)
      [] q.fn = "findRecent" -> findRecent(tables, q.limit)
      [] q.fn = "findByDateRange" ->
            findByDateRange(tables, getDateRange(q.time_period).startDate,
                            getDateRange(q.time_period).endDate)
      [] q.fn = "getTotalByType" ->
            getTotalByType(tables, q.type, getDateRange(q.time_period).startDate,
                           getDateRange(q.time_period).endDate)
      [] q.fn = "executeQuery" -> executeQueryOn(tables, q.query)

\* One read of the ledger; it writes nothing.
RepositoryQuery ==
    /\ \E q \in RepositoryQueries :
          last' = [kind |-> "query", q |-> q, rows |-> RunQuery(CurrentTables, q).rows]
    /\ UNCHANGED <<accounts, categories, transactions, purchases, uuids, pending, keyboards,
                   updates>>
    /\ UNCHANGED otherThanExpense

NextReports ==
    \/ HandleArchiveMessage
    \/ ArchiveConfirm
    \/ ArchiveSelect
    \/ ArchiveCancel
    \/ CreateTransaction
    \/ RepositoryQuery

SpecReports == InitArchive /\ [][NextReports]_vars

(***************************************************************************)
(*                              PROPERTIES                                 *)
(***************************************************************************)

\* The JSON text of a completion as extractStructured reads it.
CarriedJson(completion) ==
    JSONParse(stripMarkdownCodeFences(chatJson(completion).content))

CarriesObject(completion) ==
    /\ completion.ok
    /\ CarriedJson(completion).ok
    /\ CarriedJson(completion).kind = "object"

HasUnknownField(schema, obj) == DOMAIN obj \ schema.shape # {}

\* an enum value outside the enumeration, or a number out of range
HasBadValue(schema, obj) ==
    \E k \in DOMAIN obj \cap schema.shape : ~FieldOk(schema, k, obj[k])

ConformsTo(schema, obj) ==
    /\ ~HasUnknownField(schema, obj)
    /\ ~HasBadValue(schema, obj)
    /\ schema.required \subseteq DOMAIN obj

ExtractReturned == call.fn = "extractStructured" /\ ret.returned

\* C9 (as claimed): every model output that violates the extraction schema, by an
\* unknown field, by an enum value outside the enumeration or by a number out of
\* range, makes extractStructured fail.
C9_ViolatingOutputFails ==
    (/\ ExtractReturned
     /\ CarriesObject(call.completion)
     /\ \/ HasUnknownField(call.zodSchema, CarriedJson(call.completion).value)
        \/ HasBadValue(call.zodSchema, CarriedJson(call.completion).value))
        => ~ret.result.ok

\* C10 (as claimed): for a conforming model output extractStructured returns an
\* object equal to the parsed JSON, nothing added and nothing removed.
C10_ReturnsParsedJson ==
    (/\ ExtractReturned
     /\ CarriesObject(call.completion)
     /\ ConformsTo(call.zodSchema, CarriedJson(call.completion).value))
        => /\ ret.result.ok
           /\ ret.result.value = CarriedJson(call.completion).value

\* C10 (amended): for a conforming model output extractStructured returns the
\* parsed JSON with the schema's defaults filled in for the absent defaulted keys:
\* every field of the output keeps its value, none is removed, and the only keys
\* added are the defaulted ones, with their default values.
C10_ReturnsParsedJsonWithDefaults ==
    (/\ ExtractReturned
     /\ CarriesObject(call.completion)
     /\ ConformsTo(call.zodSchema, CarriedJson(call.completion).value))
        => LET obj == CarriedJson(call.completion).value
               defaults == call.zodSchema.defaults
           IN  /\ ret.result.ok
               /\ DOMAIN ret.result.value = DOMAIN obj \cup DOMAIN defaults
               /\ \A k \in DOMAIN obj : ret.result.value[k] = obj[k]
               /\ \A k \in DOMAIN defaults \ DOMAIN obj :
                      ret.result.value[k] = defaults[k]

\* A conforming output that carries an optional field and lacks a defaulted one
\* has been extracted.
C10_Witness ==
    /\ ExtractReturned
    /\ CarriesObject(call.completion)
    /\ ConformsTo(call.zodSchema, CarriedJson(call.completion).value)
    /\ "limit" \in DOMAIN CarriedJson(call.completion).value
    /\ "time_period" \notin DOMAIN CarriedJson(call.completion).value
    /\ ret.result.ok

(***************************************************************************)
(* Analytics pipeline.                                                     *)
(***************************************************************************)
\* The six read-only aggregation kinds of the specification.
SixQueryKinds ==
    {"rank_accounts_by_expense", "total_spending_by_category",
     "count_archived_transactions", "count_remaining_installments",
     "total_credit_card_debt", "rank_accounts_by_transaction_count"}

Made(kind) == {i \in 1..Len(trace) : trace[i].kind = kind}
MadeNamed(kind, name) == {i \in 1..Len(trace) : trace[i] = [kind |-> kind, name |-> name]}

ExecuteQueryInvoked ==
    \/ apc \in {"formatResponse", "reply"}
    \/ results # "none"
    \/ Made("repo") # {}

ValidatedSafe ==
    /\ verdict.called
    /\ verdict.returned
    /\ verdict.isSafe
    /\ verdict.query = generatedQuery
    /\ QueryTypeOf(generatedQuery) \in SixQueryKinds
    /\ verdict.asked
    /\ toUpperCase(trim(verdict.answer)) = SAFE

\* C1: executeQuery (any repository aggregation) is invoked for a generated query
\* only if validateQuery returned true for that same query, that is its query_type
\* is one of the six kinds and the validator model answered SAFE; in every other
\* case no aggregation is run and the request ends in an error.
C1_ExecuteOnlyIfValidated ==
    /\ (apc = "executeQuery" \/ ExecuteQueryInvoked) => ValidatedSafe
    /\ (apc = "done" /\ ~ValidatedSafe)
          => /\ Made("repo") = {}
             /\ results = "none"
             /\ reply.kind = "error"
             /\ error # ""

\* A validated query was executed and its result sent.
C1_Witness ==
    /\ apc = "done"
    /\ Made("repo") # {}
    /\ reply.kind = "result"
    /\ ValidatedSafe

\* C2: validateQuery called with a query whose query_type is not one of the six
\* allow-listed values returns false without fetching the query-validator prompt
\* and without any model call.
C2_DisallowedTypeReturnsFalseWithoutCalls ==
    (verdict.called /\ QueryTypeOf(verdict.query) \notin SixQueryKinds)
        => /\ verdict.returned
           /\ ~verdict.isSafe
           /\ ~verdict.asked
           /\ trace = <<>>

C2_Witness ==
    /\ verdict.called
    /\ QueryTypeOf(verdict.query) = "delete_all_transactions"
    /\ verdict.returned
    /\ ~verdict.isSafe

\* Answers the claim names as rejected.
RejectedExamples ==
    { <<"S", "A", "F", "E", ".">>,
      <<"S", "A", "F", "E", " ", "-", " ", "r", "e", "a", "d", " ", "o", "n", "l", "y">>,
      <<"N", "O", "T", " ", "S", "A", "F", "E">>,
      <<>>,
      <<"D", "E", "S", "T", "R", "U", "C", "T", "I", "V", "E">> }

\* C3: stage 2 of validateQuery is fail-closed: it returns true only when the
\* validator model's answer, trimmed and upper-cased, is exactly SAFE; every other
\* answer yields false.
C3_StageTwoFailClosed ==
    (verdict.called /\ verdict.returned /\ QueryTypeOf(verdict.query) \in SixQueryKinds)
        => /\ verdict.asked
           /\ verdict.isSafe <=> (toUpperCase(trim(verdict.answer)) = <<"S", "A", "F", "E">>)
           /\ verdict.answer \in RejectedExamples => ~verdict.isSafe

\* An answer that contains SAFE but is not SAFE was rejected.
C3_Witness ==
    /\ verdict.called
    /\ verdict.returned
    /\ verdict.answer = <<"S", "A", "F", "E", ".">>
    /\ ~verdict.isSafe

\* The query generator's model output names a query_type outside the allow-list.
GeneratorOutputDisallowed ==
    /\ genCompletion.asked
    /\ CarriesObject(genCompletion)
    /\ "query_type" \in DOMAIN CarriedJson(genCompletion).value
    /\ CarriedJson(genCompletion).value.query_type \notin SixQueryKinds

\* C4 (as claimed): a generator output with a query_type outside the allow-list is
\* rejected by stage 1 of the safety gate (validateQuery returns false), the user
\* receives the unsafe-query message, and neither the validator model nor any
\* aggregation is invoked.
C4_RejectedByStageOne ==
    (apc = "done" /\ GeneratorOutputDisallowed)
        => /\ verdict.called
           /\ verdict.returned
           /\ ~verdict.isSafe
           /\ reply.text = UnsafeMessage
           /\ MadeNamed("chat", "query-validator") = {}
           /\ Made("repo") = {}

\* C4 (amended): such an output is rejected by the generator's own schema
\* validation: generateQuery throws, validateQuery is not invoked at all, the user
\* receives the failed-to-generate error, and neither the validator prompt, the
\* validator model nor any aggregation is invoked.
C4_RejectedByGenerator ==
    GeneratorOutputDisallowed
        => /\ apc \in {"catch", "done"}
           /\ generatedQuery = NoQuery
           /\ ~verdict.called
           /\ error = GenerateFailedMessage
           /\ MadeNamed("prompt", "query-validator") = {}
           /\ MadeNamed("chat", "query-validator") = {}
           /\ Made("repo") = {}
           /\ apc = "done" => (reply.kind = "error" /\ reply.text = GenerateFailedMessage)

C4_Witness ==
    /\ apc = "done"
    /\ GeneratorOutputDisallowed
    /\ CarriedJson(genCompletion).value.query_type = "delete_all_transactions"
    /\ reply.sent

(***************************************************************************)
(* Intent Orchestrator.                                                    *)
(***************************************************************************)
\* C5: analyzeIntent never throws: whichever of the prompt fetch, the model call,
\* the JSON parse or the schema validation fails, the call returns the decision
\* {intent: 'unknown', confidence: 0, reasoning: 'Failed to analyze intent'}.
C5_AnalyzeIntentNeverThrows ==
    /\ ipc # "threw"
    /\ (ipc = "returned" /\ intentFailure # "none")
          => /\ DOMAIN decision = {"intent", "confidence", "reasoning"}
             /\ decision.intent = "unknown"
             /\ decision.confidence = 0
             /\ decision.reasoning = "Failed to analyze intent"

\* The prompt fetch failed and the call returned.
C5_Witness ==
    /\ ipc = "returned"
    /\ intentFailure = "getPrompt"
    /\ decision.intent = "unknown"

(***************************************************************************)
(* Expense pipeline.                                                       *)
(***************************************************************************)
Named(parsed, key) == key \in DOMAIN parsed /\ parsed[key] \notin {NULL, ""}

\* The name under the key is given and matches a row of the table.
Resolves(table, parsed, key) ==
    /\ Named(parsed, key)
    /\ \E r \in table : Lower(r.name) = Lower(parsed[key])

Resolved(table, parsed, key) ==
    CHOOSE r \in table : Lower(r.name) = Lower(parsed[key])

\* The account keys a transaction of the type needs.
RequiredAccounts(type) ==
    CASE type = "income"               -> {"toAccount"}
      [] type = "transfer"             -> {"fromAccount", "toAccount"}
      [] type = "expense"              -> {"fromAccount"}
      [] type = "credit_card_payment"  -> {"fromAccount", "toAccount"}
      [] type = "credit_card_purchase" -> {"toAccount"}

ReferencesResolve(parsed) ==
    /\ \A key \in RequiredAccounts(parsed.type) : Resolves(accounts, parsed, key)
    /\ parsed.type = "expense" => Resolves(Categories, parsed, "category")
    /\ (parsed.type = "credit_card_purchase" /\ Named(parsed, "category"))
          => Resolves(Categories, parsed, "category")

HandledParsedMessage == last.kind = "message" /\ last.parsed # NoPending

NothingPersisted ==
    last.inserts = 0 /\ last.txRows = <<>> /\ last.purchaseRows = <<>>

ExactInserts ==
    IF last.parsed.type = "credit_card_purchase"
    THEN /\ last.inserts = last.parsed.installments
         /\ Len(last.purchaseRows) = last.parsed.installments
         /\ last.txRows = <<>>
    ELSE /\ last.inserts = 1
         /\ Len(last.txRows) = 1
         /\ last.purchaseRows = <<>>

\* C6 (as claimed): a parsed transaction with confidence < 50 causes no persistence
\* call and a request for clarification; one with confidence >= 50 whose account
\* and category references all resolve causes exactly one transaction insert, or
\* exactly N purchase inserts for a credit_card_purchase with N installments.
C6_ConfidenceGateThenExactInserts ==
    HandledParsedMessage
        => /\ last.parsed.confidence < 50 => (NothingPersisted /\ last.reply = "clarify")
           /\ (last.parsed.confidence >= 50 /\ ReferencesResolve(last.parsed))
                 => ExactInserts

TargetIsCreditCard ==
    last.parsed.type \in {"credit_card_payment", "credit_card_purchase"}
        => Resolved(accounts, last.parsed, "toAccount").type = "credit_card"

\* C6 (amended): as above, provided that the target account of a
\* credit_card_payment or credit_card_purchase is of type credit_card and that
\* no insert fails; when the target is not a credit card nothing is inserted, and
\* when an insert fails nothing is inserted after it.
C6_ConfidenceGateThenExactInsertsIfAccepted ==
    HandledParsedMessage
        => /\ last.parsed.confidence < 50 => (NothingPersisted /\ last.reply = "clarify")
           /\ (last.parsed.confidence >= 50 /\ ReferencesResolve(last.parsed))
                 => IF ~TargetIsCreditCard
                    THEN NothingPersisted /\ last.reply = "error"
                    ELSE IF last.error = "database error"
                    THEN /\ last.reply = "error"
                         /\ last.txRows = <<>>
                         /\ Len(last.purchaseRows) = last.inserts - 1
                         /\ last.inserts >= 1
                    ELSE ExactInserts /\ last.reply = "success"

\* A purchase in MaxInstallments installments was saved.
C6_Witness ==
    /\ HandledParsedMessage
    /\ last.parsed.confidence >= 50
    /\ last.parsed.type = "credit_card_purchase"
    /\ ReferencesResolve(last.parsed)
    /\ Len(last.purchaseRows) = MaxInstallments
    /\ last.reply = "success"

\* C7: when the parsed transaction lacks a required account, or names one that
\* cannot be resolved, no account is substituted: the user is asked to pick one and
\* the parsed object is held pending, or the message fails with an error; nothing
\* is persisted for the message.
C7_NoAccountSubstituted ==
    ( /\ HandledParsedMessage
      /\ last.parsed.confidence >= 50
      /\ \E key \in RequiredAccounts(last.parsed.type) :
            ~Resolves(accounts, last.parsed, key) )
        => /\ NothingPersisted
           /\ last.reply \in {"which_account", "error"}
           /\ last.reply = "which_account" => pending = last.parsed

CategoryIdNamed(parsed) ==
    IF Resolves(Categories, parsed, "category")
    THEN Resolved(Categories, parsed, "category").id ELSE 0

\* C8: an expense parsed without fromAccount persists nothing until the user picks
\* an account; picking account A on a keyboard persists exactly the transaction
\* presented with that keyboard, with A as its source account, whatever was
\* handled in between.
C8_PickCompletesPresentedTransaction ==
    /\ (last.kind = "message" /\ last.reply = "which_account") => NothingPersisted
    /\ (last.kind = "callback" /\ last.txRows # <<>>)
          => LET shown == keyboards[last.keyboard].presented
                 row   == last.txRows[1]
             IN  /\ Len(last.txRows) = 1
                 /\ row.type = shown.type
                 /\ row.amount = shown.amount
                 /\ row.description = shown.description
                 /\ row.date = NewDate(shown.date)
                 /\ row.categoryId = CategoryIdNamed(shown)
                 /\ row.fromAccountId = last.accountId

(***************************************************************************)
(* Credit-card purchases.                                                  *)
(***************************************************************************)
ReturnedPurchase == last.kind = "recordCreditCardPurchase" /\ ~last.threw

\* The rows of the table that the last call did not write.
RowsOfOtherPurchases == SubSeq(purchases, 1, last.before)

\* C11: a call of recordCreditCardPurchase with totalInstallments = N that returns
\* has created exactly N purchase rows, numbered 1..N in order, each with
\* totalInstallments = N and amount = totalAmount / N, all carrying one purchase
\* group id that no row of any other purchase carries.
C11_InstallmentRows ==
    ReturnedPurchase
        => LET N    == last.data.totalInstallments
               rows == last.purchaseRows
           IN  /\ Len(rows) = N
               /\ Len(purchases) = last.before + N
               /\ SubSeq(purchases, last.before + 1, Len(purchases)) = rows
               /\ \A i \in 1..N :
                     /\ rows[i].installmentNumber = i
                     /\ rows[i].totalInstallments = N
                     /\ rows[i].amount = [total |-> last.data.totalAmount, dividedBy |-> N]
                     /\ rows[i].purchaseGroupId = rows[1].purchaseGroupId
               /\ \A j \in 1..last.before :
                     RowsOfOtherPurchases[j].purchaseGroupId # rows[1].purchaseGroupId

\* A second purchase, in MaxTotalInstallments installments, was recorded after a first.
C11_Witness ==
    /\ ReturnedPurchase
    /\ last.before > 0
    /\ last.data.totalInstallments = MaxTotalInstallments
    /\ Len(last.purchaseRows) = MaxTotalInstallments

\* Calendar months counted from year 0.
MonthNumber(date) == 12 * date.year + date.month

\* C12: installment i of a purchase is dated purchaseDate + (i-1) months: consecutive
\* installments fall in consecutive calendar months and no two installments of one
\* purchase fall in the same calendar month, whatever the day of the purchase date.
C12_ConsecutiveMonths ==
    ReturnedPurchase
        => LET rows == last.purchaseRows
           IN  /\ \A i \in 1..Len(rows) :
                     MonthNumber(rows[i].date) = MonthNumber(last.data.date) + (i - 1)
               /\ \A i, j \in 1..Len(rows) :
                     i # j => MonthNumber(rows[i].date) # MonthNumber(rows[j].date)

\* The insert of an installment of the purchase of the last message failed.
PurchaseInsertFailed ==
    /\ HandledParsedMessage
    /\ last.parsed.type = "credit_card_purchase"
    /\ last.error = "database error"

\* C13: installment rows are written one at a time outside any transaction: when
\* the insert of installment k fails, the k-1 rows already inserted remain in the
\* table, installments k..N are not written, and the user receives an error reply.
C13_PartialPurchaseRemains ==
    PurchaseInsertFailed
        => LET k == last.inserts
               N == last.parsed.installments
               written == last.purchaseRows
           IN  /\ k \in 1..N
               /\ Len(written) = k - 1
               /\ \A i \in 1..(k - 1) :
                     /\ written[i].installmentNumber = i
                     /\ written[i].totalInstallments = N
               /\ Len(purchases) >= k - 1
               /\ SubSeq(purchases, Len(purchases) - (k - 1) + 1, Len(purchases)) = written
               /\ last.reply = "error"

\* A partially written purchase group: installment 1 of 2 is in the table,
\* installment 2 is not.
C13_Witness ==
    /\ PurchaseInsertFailed
    /\ last.inserts = 2
    /\ Len(purchases) = 1
    /\ purchases[1].installmentNumber = 1
    /\ purchases[1].totalInstallments = 2
    /\ last.reply = "error"

\* C14: no step of an analytics request (generate, validate, execute any of the
\* six query types, format, reply) changes the accounts, the categories, the
\* transactions (is_archived included) or the credit-card purchases.
C14_AnalyticsLeavesTablesUnchanged ==
    [][UNCHANGED <<accounts, categories, transactions, purchases>>]_vars

\* A ranking that counted the archived expense was computed over the full
\* ledger and its result sent.
C14_Witness ==
    /\ apc = "done"
    /\ reply.kind = "result"
    /\ last.kind = "executeQuery"
    /\ last.query.query_type = "rank_accounts_by_expense"
    /\ last.rows = <<[account_name |-> MainChecking.name, total_expenses |-> 12]>>
    /\ transactions = LedgerTransactions
    /\ purchases = LedgerPurchases

\* Two finished calls of getPromptWithConfig for one name, the second made
\* less than cacheTTL after the first.
WithinTTL(i, j) ==
    /\ i \in Gets(plog) /\ j \in Gets(plog) /\ i < j
    /\ plog[i].name = plog[j].name
    /\ plog[j].startedAt - plog[i].startedAt < cacheTTL

Fetches(calls) == Cardinality({k \in calls : plog[k].fetched})

ClearedBetween(i, j) ==
    \E c \in Clears(plog) :
        i < c /\ c < j /\ (plog[c].op = "clearCache" \/ plog[c].name = plog[j].name)

\* The second call was answered from the cache entry of its name.
ServedFromCache(j) ==
    /\ plog[j].hit /\ ~plog[j].fetched /\ ~plog[j].threw
    /\ plog[j].name \in DOMAIN plog[j].before
    /\ plog[j].prompt = plog[j].before[plog[j].name].prompt
    /\ plog[j].config = plog[j].before[plog[j].name].config

\* C15 as stated: two calls of getPromptWithConfig for the same name, the second
\* less than 5 minutes after the first, perform exactly one store fetch, and the
\* second returns the cached prompt and config without a store call.
C15_TwoCallsOneFetch ==
    \A i, j \in 1..Len(plog) :
        WithinTTL(i, j) => Fetches({i, j}) = 1 /\ ServedFromCache(j)

\* C15 amended: the same, when the first call fetched a prompt from the store and
\* the cache was not cleared of the name between the two calls.
C15_TwoCallsOneFetchAfterSuccess ==
    \A i, j \in 1..Len(plog) :
        (WithinTTL(i, j) /\ plog[i].fetched /\ ~plog[i].threw /\ ~ClearedBetween(i, j))
            => /\ Fetches({i, j}) = 1
               /\ ServedFromCache(j)
               /\ plog[j].prompt = plog[i].prompt
               /\ plog[j].config = plog[i].config

\* A second call made some time after a first call that fetched the prompt.
C15_Witness ==
    \E i, j \in 1..Len(plog) :
        /\ WithinTTL(i, j) /\ plog[i].fetched /\ ~plog[i].threw /\ ~ClearedBetween(i, j)
        /\ plog[j].startedAt > plog[i].startedAt
        /\ plog[j].name \in DOMAIN plog[j].before

\* A call that found no fresh entry and got no prompt text: the store is
\* disabled, answered null, or answered without text.
MissedWithoutPrompt(j) ==
    /\ j \in Gets(plog)
    /\ ~plog[j].hit
    /\ ~enabled \/ ~plog[j].answer.found \/ plog[j].answer.prompt = NoText

EntryBefore(j) == CacheGet(plog[j].before, plog[j].name)

\* When the call was made there was no entry for its name, or one of age
\* cacheTTL or more.
NoFreshEntry(j) ==
    EntryBefore(j) = NoEntry \/ plog[j].startedAt - EntryBefore(j).timestamp >= cacheTTL

\* The call is the first for its name after a clearPromptCache of the name or a
\* clearCache.
FirstAfterClear(j) ==
    \E c \in Clears(plog) :
        /\ c < j
        /\ plog[c].op = "clearCache" \/ plog[c].name = plog[j].name
        /\ \A k \in Gets(plog) : (c < k /\ k < j) => plog[k].name # plog[j].name

\* C20: a call of getPromptWithConfig made when the entry of its name is 5
\* minutes old or older, or first after the entry was cleared, is not served from
\* the cache: it fetches from the store, and when the fetch yields no prompt it
\* throws instead of returning the old entry.  A call served from the cache is
\* served an entry younger than 5 minutes.
C20_ExpiredOrClearedNotServed ==
    \A j \in Gets(plog) :
        /\ FirstAfterClear(j) => NoFreshEntry(j)
        /\ plog[j].hit => ~NoFreshEntry(j)
        /\ (NoFreshEntry(j) /\ enabled)
              => /\ plog[j].fetched
                 /\ (~plog[j].answer.found \/ plog[j].answer.prompt = NoText)
                        => plog[j].threw /\ plog[j].prompt = NoText
                 /\ ~plog[j].threw => plog[j].prompt = plog[j].answer.prompt
        /\ (NoFreshEntry(j) /\ ~enabled) => plog[j].threw

\* An entry exactly cacheTTL old was in the cache, the store answered null, and the
\* call threw; and a call after a clear went to the store.
C20_Witness ==
    /\ \E j \in Gets(plog) :
          /\ EntryBefore(j) # NoEntry
          /\ plog[j].startedAt - EntryBefore(j).timestamp = cacheTTL
          /\ plog[j].fetched /\ ~plog[j].answer.found /\ plog[j].threw
    /\ \E j \in Gets(plog) :
          /\ FirstAfterClear(j) /\ plog[j].fetched
          /\ \E i \in Gets(plog) : i < j /\ plog[i].name = plog[j].name /\ ~plog[i].threw

KeysOf(variables) == {variables[i].key : i \in 1..Len(variables)}

ValueOf(variables, key) ==
    variables[CHOOSE i \in 1..Len(variables) : variables[i].key = key].value

\* The template with every placeholder of a key of variables replaced by that
\* key's value as it stands, and everything else as it stands.
RECURSIVE Substituted(_, _)
Substituted(template, variables) ==
    IF template = <<>> THEN <<>>
    ELSE (IF Head(template).t = "placeholder" /\ Head(template).key \in KeysOf(variables)
          THEN ValueOf(variables, Head(template).key)
          ELSE <<Head(template)>>)
         \o Substituted(Tail(template), variables)

NoPlaceholderRemains(text, variables) ==
    \A i \in 1..Len(text) :
        ~(text[i].t = "placeholder" /\ text[i].key \in KeysOf(variables))

CompileReturned == call.fn = "compilePrompt" /\ ret.returned

\* C17: compilePrompt(template, vars) is the template with every {{key}}, spaced
\* or not, replaced by vars[key] for each key of vars, placeholders of other keys
\* and keys that do not occur left alone; and compiling a result in which no
\* placeholder of a key of vars remains, with the same vars, returns it unchanged.
C17_CompileSubstitutesValues ==
    CompileReturned
        => /\ ret.result = Substituted(call.template, call.variables)
           /\ NoPlaceholderRemains(ret.result, call.variables)
                 => compilePrompt(ret.result, call.variables) = ret.result

\* USER_ID is set (and not empty).
UserIdIsSet == env.USER_ID.set /\ env.USER_ID.text # <<>>

\* USER_ID is the id of the sender, written in digits.
IsUserIdOf(from) ==
    /\ from.present
    /\ LeadingDigits(env.USER_ID.text) = env.USER_ID.text
    /\ parseInt(env.USER_ID.text) = Number(from.id)

UpdateReceived == last.kind \in {"stopped", "admitted", "handled"}

\* The update was answered with the animation and with nothing else, and no
\* model call, no row and no session value came of it.
OnlyTheGif ==
    /\ last.kind = "stopped"
    /\ reply.sent /\ reply.kind = "animation"
    /\ Footprint = last.before

\* C18: with USER_ID set, an update of any type from anyone but that user is
\* answered only with the GIF and reaches no handler (no model call, no
\* persistence, no session change); with USER_ID empty or not set every update is
\* admitted.
C18_OnlyTheUserIsAdmitted ==
    UpdateReceived
        => /\ (UserIdIsSet /\ ~IsUserIdOf(last.from)) => OnlyTheGif
           /\ ~UserIdIsSet => last.kind \in {"admitted", "handled"}

\* With USER_ID a user id, an update from anyone else reaches no handler, and is
\* answered with the GIF when YOU_SHALL_NOT_PASS is set.
ValidUserIdStopsOthers ==
    (UpdateReceived /\ Truthy(authorizedUserId) /\ ~IsUserIdOf(last.from))
        => /\ last.kind = "stopped"
           /\ Footprint = last.before
           /\ reply.kind # "result"
           /\ env.YOU_SHALL_NOT_PASS.set => reply.sent /\ reply.kind = "animation"

\* What routing relies on in an IntentDecision (confidence in hundredths).
IsIntentDecision(d) ==
    /\ {"intent", "confidence"} \subseteq DOMAIN d
    /\ d.intent \in IntentEnum
    /\ d.confidence \in 0..100

\* What persistence and the session rely on in a ParsedTransaction.
IsParsedTransaction(p) ==
    /\ {"amount", "type", "currency", "installments", "confidence"} \subseteq DOMAIN p
    /\ p.amount \in Int /\ p.amount > 0
    /\ p.type \in TransactionTypeEnum
    /\ p.currency \in CurrencyEnum
    /\ p.installments \in Int /\ p.installments >= 1
    /\ p.confidence \in 0..100

\* C19: no object derived from a completion is acted upon before it passed its
\* validator: the decision handed to routing has one of the 8 intents and a
\* confidence in [0,1], the fallback included; what an update handler parsed and
\* went on with, and what the pending-transaction session and the keyboards hold,
\* has amount > 0, type and currency in their enumerations, integer
\* installments >= 1 and confidence in [0,100]; the query handed to validateQuery
\* and to executeQuery satisfies QueryGeneratorSchema.
C19_OnlyValidatedObjectsAreActedUpon ==
    /\ IsIntentDecision(FallbackDecision)
    /\ decision # NoDecision => IsIntentDecision(decision)
    /\ pending # NoPending => IsParsedTransaction(pending)
    /\ \A i \in DOMAIN keyboards : IsParsedTransaction(keyboards[i].presented)
    /\ (last.kind = "message" /\ last.parsed # NoPending) => IsParsedTransaction(last.parsed)
    /\ \A i \in DOMAIN transactions : transactions[i].amount > 0
    /\ \A i \in DOMAIN purchases : purchases[i].totalInstallments >= 1
    /\ verdict.called => ConformsTo(QueryGeneratorSchema, verdict.query)
    /\ ExecuteQueryInvoked => ConformsTo(QueryGeneratorSchema, generatedQuery)

\* A parsed expense without fromAccount waits in the session, its installments
\* filled in by the schema's default.
C19_Witness ==
    /\ call.fn = "handleExpenseMessage"
    /\ last.kind = "message"
    /\ last.reply = "which_account"
    /\ pending # NoPending
    /\ pending = last.parsed
    /\ pending.installments = 1

\* The fetch that wrote the cache entry a later call of the same name was served.
Writer(i) ==
    CHOOSE j \in Gets(plog) :
        /\ j < i /\ plog[j].fetched /\ ~plog[j].threw /\ plog[j].name = plog[i].name
        /\ \A k \in Gets(plog) :
              (k < i /\ plog[k].fetched /\ ~plog[k].threw /\ plog[k].name = plog[i].name)
                  => k <= j

\* The config the store had for the prompt when it was last fetched.
ConfigOfStore(i) ==
    IF plog[i].fetched THEN plog[i].answer.config ELSE plog[Writer(i)].answer.config

\* C21: the config of every successful getPromptWithConfig(name, fallbackConfig) is
\* the store's config when the store has one for the prompt, and otherwise the
\* fallbackConfig of that very call, also when an earlier caller resolved the
\* prompt with another fallback or with none.
C21_ConfigIsStoresElseThisCallers ==
    \A i \in Gets(plog) :
        ~plog[i].threw
            => plog[i].config = IF ConfigOfStore(i) # NoConfig THEN ConfigOfStore(i)
                                ELSE plog[i].fallbackConfig

\* C22: getPromptWithConfig(name, fallback, v) returns the text of version v of
\* the prompt, also when another version of the name was resolved within the
\* previous 5 minutes.
C22_ReturnsRequestedVersion ==
    \A i \in Gets(plog) :
        (~plog[i].threw /\ plog[i].version # 0)
            => plog[i].prompt = Text(plog[i].name, plog[i].version)

\* The fetches that returned a prompt, in the order in which they returned.
Written == {i \in Gets(plog) : plog[i].fetched /\ ~plog[i].threw}

\* The entry a successful fetch builds.
EntryOf(i) == [prompt |-> plog[i].prompt, config |-> plog[i].config, timestamp |-> plog[i].endedAt]

\* C23: when two messages resolve the same uncached or expired prompt name at
\* once, each may fetch, both receive the complete prompt and config of their own
\* fetch, and the cache entry afterwards is exactly the entry written by the fetch
\* that returned last: never a mixture, never missing.
C23_ConcurrentResolvesLastWriteWins ==
    /\ \A i \in Gets(plog) :
          (plog[i].fetched /\ plog[i].answer.found /\ plog[i].answer.prompt # NoText)
              => /\ ~plog[i].threw
                 /\ plog[i].prompt = plog[i].answer.prompt
                 /\ plog[i].config = IF plog[i].answer.config # NoConfig
                                     THEN plog[i].answer.config ELSE plog[i].fallbackConfig
    /\ Written # {}
          => /\ ResolvedName \in DOMAIN promptCache
             /\ \E i \in Written :
                   /\ \A k \in Written : k <= i
                   /\ promptCache[ResolvedName] = EntryOf(i)
    /\ Written = {} => promptCache = EmptyCache

\* Two fetches of the name in flight at once, both returning a prompt, with
\* different configs; the second to return finds the first one's entry.
C23_Witness ==
    \E i, j \in Written :
        /\ i < j
        /\ plog[j].before = plog[i].before
        /\ plog[i].config # plog[j].config
        /\ plog[i].after # plog[i].before
        /\ promptCache[ResolvedName] = EntryOf(j)

\* Every external call of the message so far was made once.
EachCallMadeOnce ==
    \A i \in 1..Len(trace) : MadeNamed(trace[i].kind, trace[i].name) = {i}

\* A stage failed: the pipeline is in handleCustomReportQuery's catch block.
StageFailed == apc = "catch" /\ error # ""

DeliveredAgain == last.kind = "callback" /\ last.again

\* C25: once an account-selection callback has completed a pending transaction,
\* every further delivery of a complete_expense_account callback for it creates
\* no transaction and is answered with the "request has expired" message.
C25_FurtherDeliveriesExpire ==
    DeliveredAgain => last.reply = "expired" /\ last.inserts = 0 /\ last.txRows = <<>>

\* The part that holds: a further delivery while no other transaction is pending.
C25_FurtherDeliveriesExpireUnlessPending ==
    [][(updates' = updates + 1 /\ pending = NoPending /\ last'.kind = "callback")
            => (last'.reply = "expired" /\ transactions' = transactions)]_vars

InsideEnumerations(pipeline, value) ==
    CASE pipeline = "analyzeIntent" -> value.intent \in IntentEnum
      [] pipeline = "handleExpenseMessage" ->
            value.type \in TransactionTypeEnum /\ value.currency \in CurrencyEnum
      [] pipeline = "generateQuery" -> value.query_type \in QueryTypeEnum

RowsKept ==
    /\ Len(transactions') >= Len(transactions)
    /\ \A i \in DOMAIN transactions :
          [transactions'[i] EXCEPT !.is_archived = FALSE] =
              [transactions[i] EXCEPT !.is_archived = FALSE]

FlagChanged(i) == transactions'[i].is_archived # transactions[i].is_archived

\* C28: the is_archived flag of a transaction changes only from FALSE to TRUE
\* and only in a step that handles an archive_confirm or archive_select
\* callback; no step takes a row away, so handleArchiveMessage and
\* archive_cancel archive nothing, nothing is un-archived or deleted, and an
\* archived transaction that is archived again stays archived.
C28_ArchivedOnlyByConfirmOrSelect ==
    [][/\ RowsKept
       /\ \A i \in DOMAIN transactions :
             /\ transactions[i].is_archived => transactions'[i].is_archived
             /\ FlagChanged(i) => last'.kind \in {"archive_confirm", "archive_select"}]_vars

\* A transaction archived by a button is archived once more by the same
\* button and is still archived.
C28_Witness ==
    /\ last.kind \in {"archive_confirm", "archive_select"}
    /\ last.reply = "archived"
    /\ last.id \in last.before
    /\ \E i \in DOMAIN transactions :
          transactions[i].id = last.id /\ transactions[i].is_archived

\* The template with each placeholder of a key of variables replaced once by
\* what replace() inserts for that key's value, and what was inserted left as it
\* is.
RECURSIVE InsertedOnce(_, _)
InsertedOnce(template, variables) ==
    IF template = <<>> THEN <<>>
    ELSE (IF Head(template).t = "placeholder" /\ Head(template).key \in KeysOf(variables)
          THEN Replacement(ValueOf(variables, Head(template).key), Head(template))
          ELSE <<Head(template)>>)
         \o InsertedOnce(Tail(template), variables)

\* The same entries in every order.
Reorderings(variables) ==
    {w \in [1..Len(variables) -> {variables[i] : i \in 1..Len(variables)}] :
        \A i \in 1..Len(variables) : \E j \in 1..Len(variables) : w[j] = variables[i]}

\* C29: placeholder syntax inside a substituted value is never itself expanded:
\* the compiled prompt is the template with each placeholder replaced once, and
\* it is the same for every order in which the variables are processed.
C29_CompiledIndependentOfOrder ==
    CompileReturned
        => /\ ret.result = InsertedOnce(call.template, call.variables)
           /\ \A w \in Reorderings(call.variables) :
                 compilePrompt(call.template, w) = ret.result

\* The ledger without its archived transactions, and the ledger with nothing
\* archived.
WithoutArchived(tables) ==
    [tables EXCEPT !.transactions = SelectSeq(@, LAMBDA t : t.is_archived = FALSE)]

NothingArchived(tables) ==
    [tables EXCEPT !.transactions = [i \in 1..Len(@) |-> [@[i] EXCEPT !.is_archived = FALSE]]]

IsRanking(q) ==
    /\ q.fn = "executeQuery"
    /\ q.query.query_type \in {"rank_accounts_by_expense", "rank_accounts_by_transaction_count"}

IsCount(q) == q.fn = "executeQuery" /\ q.query.query_type = "count_archived_transactions"

ArchivedRows == {i \in 1..Len(transactions) : transactions[i].is_archived}

\* C30: what the balances, the recent and date-range listings, the expense
\* totals and the spending by category return is what they return on the ledger
\* without its archived transactions; the same holds of the two account rankings
\* unless include_archived is true, and then an archived transaction counts like
\* any other; count_archived_transactions is the number of archived transactions.
C30_ArchivedNeverContributes ==
    last.kind = "query"
        => /\ (~IsCount(last.q) /\ ~(IsRanking(last.q) /\ last.q.query.include_archived))
                 => last.rows = RunQuery(WithoutArchived(CurrentTables), last.q).rows
           /\ (IsRanking(last.q) /\ last.q.query.include_archived)
                 => last.rows = RunQuery(NothingArchived(CurrentTables), last.q).rows
           /\ IsCount(last.q) => last.rows = <<[count |-> Cardinality(ArchivedRows)]>>

\* The balances are read while the account has an archived expense, archived by
\* a button, next to transactions that are not archived.
C30_Witness ==
    /\ last.kind = "query"
    /\ last.q.fn = "getAllBalances"
    /\ \E i \in ArchivedRows, k \in 1..Len(keyboards) :
          /\ transactions[i].fromAccountId = MainChecking.id
          /\ transactions[i].id \in keyboards[k].ids
    /\ \E r \in last.rows : r.account_id = MainChecking.id /\ r.balance # 0

====
